---- MODULE Spec2Model ----
(***************************************************************************)
(* Barnes-Hut gravity tree of phd/gravity/gravity_tree.pyx: node pool,     *)
(* tree build, moment aggregation, serial walk and the parallel walk.      *)
(*                                                                         *)
(* Lengths are fixed-point integers (Unit per grid step), so that the      *)
(* halving of widths and the centre offsets of create_child are exact down *)
(* to depth MaxDepth + 1.  Centres of mass are exact rationals <<n, d>>.   *)
(* An acceleration column is modelled by the sequence of contributions     *)
(* added to it: one record per interact() that reaches the accumulation.   *)
(***************************************************************************)
EXTENDS Integers, Sequences, FiniteSets, TLC

\* ------------------------------------------------------------------ bounds
MaxParticles == 2
\* rounds of the parallel walk that are followed
MaxRounds == 3
MaxDepth == 3

\* --------------------------------------------------------- program constants
NOT_EXIST == -1
ROOT == 0
ROOT_SIBLING == -1
LEAF == 1
HAS_PARTICLE == 2
TOP_TREE == 4
TOP_TREE_LEAF == 8
TOP_TREE_LEAF_REMOTE == 16
SKIP_BRANCH == 32
Real == "Real"
Ghost == "Ghost"
PoolCapacity == 1000
Dim == 2

\* ------------------------------------------------------------------ state
VARIABLES
    parallel,      \* GravityTree.parallel
    size,          \* number of ranks (load_bal.size); 1 in a serial run
    domain,        \* DomainLimits: [bounds, max_length]
    open_angle,    \* BarnesHut.open_angle, a rational <<n, d>>
    max_export,    \* GravityTree.max_export
    load_bal,      \* the load-balance tree: [tree, leaf_pid]
    junk,          \* what the never-assigned Node.index field reads as
    pc,            \* pc[r]: the particle container of rank r
    nodes,         \* nodes[r]: the GravityNodePool of rank r
    remote_nodes,  \* remote_nodes[r]: rows [map, proc, mass, com]
    counts,        \* counts[r]: [send_cnts, send_disp, recv_cnts, recv_disp]
    interaction,   \* interaction[r]: export_interaction of rank r
    buffer_id,     \* buffer_id[r]: exported particle indices
    buffer_pid,    \* buffer_pid[r]: their destination ranks
    buffer_export, \* buffer_export[r]: rows packed for sending
    buffer_import, \* buffer_import[r]: rows received
    done,          \* done[r]: [loc_done, glb_done, rounds]
    ctl,           \* ctl[r]: where rank r stands in build and walk
    bi,            \* bi[r]: the index i of the insertion loop of _build_tree
    wlog           \* wlog[r]: walk events of rank r since walk() was called

config == <<parallel, size, domain, open_angle, max_export, load_bal, junk>>
exchange == <<remote_nodes, counts, buffer_id, buffer_pid, buffer_export,
              buffer_import, done>>
vars == <<config, exchange, pc, nodes, interaction, ctl, bi, wlog>>

Ranks == 0..(size - 1)

\* number_nodes = 2**dim
RECURSIVE Pow2(_)
Pow2(n) == IF n = 0 THEN 1 ELSE 2 * Pow2(n - 1)
number_nodes == Pow2(Dim)

\* fixed-point scale: one grid step
Unit == Pow2(MaxDepth)
Axes == 1..Dim
Slots == 0..(number_nodes - 1)

\* ------------------------------------------------------------- rationals
RECURSIVE Gcd(_, _)
Gcd(a, b) == IF b = 0 THEN a ELSE Gcd(b, a % b)
Abs(a) == IF a < 0 THEN -a ELSE a
RatNorm(n, d) ==
    LET g == Gcd(Abs(n), Abs(d))
        s == IF d < 0 THEN -1 ELSE 1
    IN  IF n = 0 THEN <<0, 1>> ELSE <<s * (n \div g), s * (d \div g)>>
RatInt(n) == <<n, 1>>
RatAdd(p, q) == RatNorm(p[1] * q[2] + q[1] * p[2], p[2] * q[2])
RatScale(m, p) == RatNorm(m * p[1], p[2])
RatDiv(p, m) == RatNorm(p[1], p[2] * m)
RatZero == <<0, 1>>
ZeroVec == [k \in Axes |-> RatZero]

\* bit i of the child slot
Bit(n, i) == (n \div Pow2(i)) % 2

\* ------------------------------------------------------------ node pool
\* node_array[idx + 1] is the node of pool index idx; slots at and beyond
\* used are not modelled (uninitialised memory).
\* Arrays made by a function constructor are written <<>> \o [...], which
\* makes them tuples before any element is replaced.
At(pool, idx) == pool.node_array[idx + 1]
SetAt(pool, idx, node) == [pool EXCEPT !.node_array[idx + 1] = node]

NoChildren == [s \in Slots |-> NOT_EXIST]

\* a slot as malloc/realloc hands it out: no field is initialised
RawNode ==
    [flags |-> {}, width |-> 0, center |-> [k \in Axes |-> 0],
     children |-> NoChildren, pid |-> NOT_EXIST,
     mass |-> 0, com |-> ZeroVec,
     first_child |-> NOT_EXIST, next_sibling |-> NOT_EXIST,
     index |-> junk]

PoolNew(num_nodes) == [used |-> 0, capacity |-> num_nodes, node_array |-> <<>>]

\* mutant of PoolResize: the capacity is set to the size asked for, also
\* when that is less than the capacity
PoolResize_unguarded(pool, new_size) == [pool EXCEPT !.capacity = new_size]

PoolResize(pool, new_size) ==
    IF new_size > pool.capacity THEN [pool EXCEPT !.capacity = new_size] ELSE pool

PoolGet(pool, count) ==
    LET grown == IF pool.used + count > pool.capacity
                 THEN PoolResize(pool, 2 * pool.capacity)
                 ELSE pool
    IN  [grown EXCEPT !.used = pool.used + count,
                      !.node_array = pool.node_array \o [i \in 1..count |-> RawNode]]

PoolReset(pool) == [pool EXCEPT !.used = 0, !.node_array = <<>>]

\* ---------------------------------------------------------- tree build
get_index(pool, parent_index, x) ==
    LET node == At(pool, parent_index)
        bit(k) == IF x[k] > node.center[k] THEN Pow2(k - 1) ELSE 0
        RECURSIVE Sum(_)
        Sum(k) == IF k = 0 THEN 0 ELSE bit(k) + Sum(k - 1)
    IN  Sum(Dim)

\* mutant of create_child: the child is not entered in the parent's slot
create_child_unlinked(pool, parent_index, child_index) ==
    LET got == PoolGet(pool, 1)
        cidx == got.used - 1
        parent == At(got, parent_index)
        width == parent.width \div 2
        child == [RawNode EXCEPT
                     !.children = NoChildren,
                     !.flags = {LEAF},
                     !.width = width,
                     !.center = [k \in Axes |->
                         IF Bit(child_index, k - 1) = 1
                         THEN parent.center[k] + width \div 2
                         ELSE parent.center[k] - width \div 2]]
        parent2 == [parent EXCEPT !.flags = @ \ {LEAF}]
    IN  SetAt(SetAt(got, parent_index, parent2), cidx, child)

\* the pool after create_child; the child is the node of index used - 1
create_child(pool, parent_index, child_index) ==
    LET got == PoolGet(pool, 1)
        cidx == got.used - 1
        parent == At(got, parent_index)
        width == parent.width \div 2
        child == [RawNode EXCEPT
                     !.children = NoChildren,
                     !.flags = {LEAF},
                     !.width = width,
                     !.center = [k \in Axes |->
                         IF Bit(child_index, k - 1) = 1
                         THEN parent.center[k] + width \div 2
                         ELSE parent.center[k] - width \div 2]]
        parent2 == [parent EXCEPT !.children[child_index] = cidx,
                                  !.flags = @ \ {LEAF}]
    IN  SetAt(SetAt(got, parent_index, parent2), cidx, child)

create_root(pool, dom) ==
    LET got == PoolGet(PoolReset(pool), 1)
        root == [RawNode EXCEPT
                    !.flags = {LEAF},
                    !.width = dom.max_length,
                    !.center = [k \in Axes |->
                        (dom.bounds[2][k] - dom.bounds[1][k]) \div 2],
                    !.children = NoChildren]
    IN  SetAt(got, ROOT, root)

\* a cell narrower than four fixed-point steps cannot be halved exactly
CanSplit(node) == node.width >= 4

\* mutant of store_particle: the HAS_PARTICLE bit is not set
store_particle_no_flag(pool, index, pid) ==
    SetAt(pool, index,
        [At(pool, index) EXCEPT !.flags = @ \cup {LEAF}, !.pid = pid])

\* a leaf takes particle pid: flags |= (LEAF|HAS_PARTICLE), data.pid = pid
store_particle(pool, index, pid) ==
    SetAt(pool, index,
        [At(pool, index) EXCEPT !.flags = @ \cup {LEAF, HAS_PARTICLE}, !.pid = pid])

\* the while True loop of _build_tree for particle i, entered at current;
\* ok = FALSE when the loop would subdivide below the model's resolution
RECURSIVE insert_particle(_, _, _, _)
insert_particle(pool, cont, i, current) ==
    LET node == At(pool, current)
        xi == cont[i + 1].x
    IN  IF LEAF \in node.flags
        THEN IF HAS_PARTICLE \in node.flags
             THEN IF ~CanSplit(node)
                  THEN [nodes |-> pool, ok |-> FALSE]
                  ELSE LET j == node.pid
                           xj == cont[j + 1].x
                           cleared == SetAt(pool, current,
                               [node EXCEPT !.children = NoChildren,
                                            !.flags = @ \ {LEAF, HAS_PARTICLE}])
                           index == get_index(cleared, current, xj)
                           made == create_child(cleared, current, index)
                           cidx == made.used - 1
                           stored == store_particle(made, cidx, j)
                       IN  insert_particle(stored, cont, i, current)
             ELSE [nodes |-> SetAt(pool, current,
                       [node EXCEPT !.flags = @ \cup {HAS_PARTICLE}, !.pid = i]),
                   ok |-> TRUE]
        ELSE LET index == get_index(pool, current, xi)
             IN  IF node.children[index] = NOT_EXIST
                 THEN IF ~CanSplit(node)
                      THEN [nodes |-> pool, ok |-> FALSE]
                      ELSE LET made == create_child(pool, current, index)
                               cidx == made.used - 1
                           IN  [nodes |-> store_particle(made, cidx, i),
                                ok |-> TRUE]
                 ELSE insert_particle(pool, cont, i, node.children[index])

\* ------------------------------------------------------ moment aggregation
\* mutant of next_populated: empty slots are not passed over
next_populated_at(children, j) == j

\* slot of the next populated child after slot i, or number_nodes
RECURSIVE next_populated(_, _)
next_populated(children, j) ==
    IF j < number_nodes /\ children[j] = NOT_EXIST
    THEN next_populated(children, j + 1)
    ELSE j

\* mutant of child_sibling: every child inherits the node's own sibling
child_sibling_inherit(children, i, sibling) == sibling

\* the sibling handed to the child in slot i: the next populated child of
\* the node, or the node's own sibling
child_sibling(children, i, sibling) ==
    LET j == next_populated(children, i + 1)
    IN  IF j < number_nodes THEN children[j] ELSE sibling

\* mutant of add_child_moment: the mass is assigned, not added
add_child_moment_assign(acc, child) ==
    [acc EXCEPT !.mass = child.mass,
                !.com = [k \in Axes |->
                    RatAdd(acc.com[k], RatScale(child.mass, child.com[k]))]]

\* mutant of add_child_moment: com is summed without the mass weight
add_child_moment_unweighted(acc, child) ==
    [acc EXCEPT !.mass = @ + child.mass,
                !.com = [k \in Axes |-> RatAdd(acc.com[k], child.com[k])]]

\* mass += child.mass; com[k] += child.mass * child.com[k]
add_child_moment(acc, child) ==
    [acc EXCEPT !.mass = @ + child.mass,
                !.com = [k \in Axes |->
                    RatAdd(acc.com[k], RatScale(child.mass, child.com[k]))]]

\* the moments of a leaf: those of its particle, or zero
leaf_moment(node, cont) ==
    IF HAS_PARTICLE \in node.flags
    THEN [mass |-> cont[node.pid + 1].mass,
          com |-> [k \in Axes |-> RatInt(cont[node.pid + 1].x[k])]]
    ELSE [mass |-> 0, com |-> ZeroVec]

\* mutant of skip_branch: a child without SKIP_BRANCH does not clear skip
skip_branch_kept(skip, child) == skip

\* skip &= (child.flags & SKIP_BRANCH)
skip_branch(skip, child) == skip \cap (child.flags \cap {SKIP_BRANCH})

RECURSIVE update_moments(_, _, _, _), update_children(_, _, _, _, _, _)

\* the loop over the children slots i .. number_nodes-1 of node current;
\* acc = [nodes, skip, mass, com]
update_children(acc, cont, current, sibling, children, i) ==
    IF i >= number_nodes THEN acc
    ELSE IF children[i] = NOT_EXIST
         THEN update_children(acc, cont, current, sibling, children, i + 1)
         ELSE LET sib == child_sibling(children, i, sibling)
                  updated == update_moments(acc.nodes, cont, children[i], sib)
                  child == At(updated, children[i])
                  acc2 == add_child_moment(
                      [acc EXCEPT !.nodes = updated,
                                  !.skip = skip_branch(@, child)],
                      child)
              IN  update_children(acc2, cont, current, sibling, children, i + 1)

update_moments(pool, cont, current, sibling) ==
    LET node == At(pool, current)
    IN  IF LEAF \notin node.flags
        THEN LET acc == update_children(
                     [nodes |-> pool, skip |-> {SKIP_BRANCH}, mass |-> 0,
                      com |-> ZeroVec],
                     cont, current, sibling, node.children, 0)
                 j == next_populated(node.children, 0)
                 after == At(acc.nodes, current)
             IN  SetAt(acc.nodes, current,
                     [after EXCEPT
                         !.flags = @ \cup (acc.skip \cap {SKIP_BRANCH}),
                         !.first_child = IF j < number_nodes
                                         THEN node.children[j] ELSE NOT_EXIST,
                         !.next_sibling = sibling,
                         !.mass = acc.mass,
                         !.com = IF acc.mass # 0
                                 THEN [k \in Axes |-> RatDiv(acc.com[k], acc.mass)]
                                 ELSE ZeroVec])
        ELSE SetAt(pool, current,
                 [node EXCEPT
                     !.first_child = NOT_EXIST,
                     !.next_sibling = sibling,
                     !.mass = leaf_moment(node, cont).mass,
                     !.com = leaf_moment(node, cont).com])

\* ------------------------------------------------- splitter and interaction
\* BarnesHut.split: open iff width^2 >= r2 * angle^2, r2 the squared
\* distance of the particle at x to the node's centre of mass; the rational
\* comparison is cleared of denominators (den is the product of the com
\* denominators squared)
split(node, x, angle) ==
    LET RECURSIVE Den(_)
        Den(k) == IF k = 0 THEN 1
                  ELSE node.com[k][2] * node.com[k][2] * Den(k - 1)
        den == Den(Dim)
        term(k) == LET d == node.com[k][2]
                       n == x[k] * d - node.com[k][1]
                   IN  n * n * (den \div (d * d))
        RECURSIVE R2(_)
        R2(k) == IF k = 0 THEN 0 ELSE term(k) + R2(k - 1)
    IN  node.width * node.width * angle[2] * angle[2] * den
            >= R2(Dim) * angle[1] * angle[1]

\* the self-interaction test of GravityAcceleration.interact
inside_cell(node, x) ==
    \A k \in Axes :
        /\ ~(2 * x[k] < 2 * node.center[k] - node.width)
        /\ ~(2 * x[k] > 2 * node.center[k] + node.width)

\* TRUE iff interact(node) reaches the accumulation for the particle at x
interact_adds(node, x) == ~(LEAF \in node.flags /\ inside_cell(node, x))

\* one contribution to an acceleration column: node `node` of rank `rank`
Contribution(rank, index) == [rank |-> rank, node |-> index]
\* the content of an acceleration column that no walk has written yet
Stale == [rank |-> -1, node |-> -1]

\* interact(node) for the particle at x: what the call adds to the
\* acceleration of the particle
interact(rank, pool, index, x) ==
    IF interact_adds(At(pool, index), x) THEN <<Contribution(rank, index)>> ELSE <<>>

\* GravityAcceleration.initialize_particles
initialize_particles(it, cont) ==
    [it EXCEPT !.current = -1, !.num_particles = Len(cont)]

\* mutant of skip_ghosts: the loop is left out, the row at c is taken
skip_ghosts_none(cont, num_particles, c) == [ret |-> 1, current |-> c]

\* the ghost-skipping loop of process_particle from index c
RECURSIVE skip_ghosts(_, _, _)
skip_ghosts(cont, num_particles, c) ==
    IF cont[c + 1].tag = Ghost
    THEN IF c + 1 < num_particles
         THEN skip_ghosts(cont, num_particles, c + 1)
         ELSE [ret |-> 0, current |-> c]
    ELSE [ret |-> 1, current |-> c]

\* GravityAcceleration.process_particle: [ret, current]; the caller zeroes
\* the acceleration of particle current when ret = 1
process_particle(it, cont) ==
    LET c == it.current + 1
    IN  IF c < it.num_particles
        THEN skip_ghosts(cont, it.num_particles, c)
        ELSE [ret |-> 0, current |-> c]

\* ---------------------------------------------------------- serial walk
\* A walk is modelled by the sequence of its events: <<"visit", n>> when the
\* inner loop fetches node n, <<"interact", n>> when interact(n) is called.

\* mutant of serial_traverse: interact is called on an opened node too
RECURSIVE serial_traverse_opened(_, _, _, _)
serial_traverse_opened(pool, x, angle, index) ==
    IF index = ROOT_SIBLING THEN <<>>
    ELSE LET node == At(pool, index)
         IN  IF LEAF \in node.flags
             THEN <<<<"visit", index>>, <<"interact", index>>>>
                      \o serial_traverse_opened(pool, x, angle, node.next_sibling)
             ELSE IF split(node, x, angle)
                  THEN <<<<"visit", index>>, <<"interact", index>>>>
                           \o serial_traverse_opened(pool, x, angle, node.first_child)
                  ELSE <<<<"visit", index>>, <<"interact", index>>>>
                           \o serial_traverse_opened(pool, x, angle, node.next_sibling)

\* the inner loop of _serial_walk for the particle at x, from index
RECURSIVE serial_traverse(_, _, _, _)
serial_traverse(pool, x, angle, index) ==
    IF index = ROOT_SIBLING THEN <<>>
    ELSE LET node == At(pool, index)
         IN  IF LEAF \in node.flags
             THEN <<<<"visit", index>>, <<"interact", index>>>>
                      \o serial_traverse(pool, x, angle, node.next_sibling)
             ELSE IF split(node, x, angle)
                  THEN <<<<"visit", index>>>>
                           \o serial_traverse(pool, x, angle, node.first_child)
                  ELSE <<<<"visit", index>>, <<"interact", index>>>>
                           \o serial_traverse(pool, x, angle, node.next_sibling)

\* the acceleration that the interact calls of the events from = i on add up
RECURSIVE accumulate(_, _, _, _, _)
accumulate(events, i, rank, pool, x) ==
    IF i > Len(events) THEN <<>>
    ELSE (IF events[i][1] = "interact"
          THEN interact(rank, pool, events[i][2], x) ELSE <<>>)
             \o accumulate(events, i + 1, rank, pool, x)

\* ------------------------------------------------------ load-balance tree
\* The load-balance tree is consumed read-only: tree[i + 1] is the LoadNode
\* of array position i, with children_start (-1 at a leaf, else the offset
\* of the block of children from the parent), array_index (the leaf's index
\* in SFC order) and zorder_to_hilbert; leaf_pid[a + 1] is the owning rank
\* of the leaf of array_index a.
LoadAt(lb, i) == lb.tree[i + 1]
LoadIsLeaf(ln) == ln.children_start = -1
LoadLeaves(lb) == {i \in 0..(Len(lb.tree) - 1) : LoadIsLeaf(LoadAt(lb, i))}
load_number_nodes(lb) == Len(lb.tree)
load_number_leaves(lb) == Cardinality(LoadLeaves(lb))

\* bits per axis of an SFC key
KeyBits == 2

\* find_leaf(key): the position in lb.tree of the leaf that holds the key
RECURSIVE find_leaf(_, _, _, _)
find_leaf(lb, key, i, depth) ==
    LET ln == LoadAt(lb, i)
        bit(k) == Bit(key[k], KeyBits - 1 - depth) * Pow2(k - 1)
        RECURSIVE Sum(_)
        Sum(k) == IF k = 0 THEN 0 ELSE bit(k) + Sum(k - 1)
    IN  IF LoadIsLeaf(ln) THEN i
        ELSE find_leaf(lb, key, i + ln.children_start + ln.zorder_to_hilbert[Sum(Dim)],
                 depth + 1)

\* ---------------------------------------------------------------- top tree
create_children(pool, parent_index) ==
    LET got == PoolGet(pool, number_nodes)
        start_index == got.used - number_nodes
        parent == At(got, parent_index)
        width == parent.width \div 2
        child(i) == [RawNode EXCEPT
                        !.flags = {LEAF},
                        !.width = width,
                        !.children = NoChildren,
                        !.center = [k \in Axes |->
                            IF Bit(i, k - 1) = 1
                            THEN parent.center[k] + width \div 2
                            ELSE parent.center[k] - width \div 2]]
    IN  [got EXCEPT !.node_array = <<>> \o [n \in 1..got.used |->
            IF n - 1 = parent_index
            THEN [parent EXCEPT !.flags = @ \ {LEAF},
                                !.children = [i \in Slots |-> start_index + i]]
            ELSE IF n - 1 >= start_index THEN child(n - 1 - start_index)
            ELSE got.node_array[n]]]

\* _create_top_tree on st = [nodes, maps]; maps[a] is the pool index of the
\* top-tree leaf of array_index a
RECURSIVE create_top_tree(_, _, _, _), top_tree_children(_, _, _, _, _)
top_tree_children(st, lb, node_index, load_index, i) ==
    IF i >= number_nodes THEN st
    ELSE LET lp == LoadAt(lb, load_index)
             index == lp.zorder_to_hilbert[i]
             sub == create_top_tree(st, lb,
                        At(st.nodes, node_index).children[i],
                        load_index + lp.children_start + index)
         IN  top_tree_children(sub, lb, node_index, load_index, i + 1)

create_top_tree(st, lb, node_index, load_index) ==
    LET lp == LoadAt(lb, load_index)
        labelled == SetAt(st.nodes, node_index,
            [At(st.nodes, node_index) EXCEPT !.flags = @ \cup {TOP_TREE}])
    IN  IF LoadIsLeaf(lp)
        THEN [nodes |-> SetAt(labelled, node_index,
                  [At(labelled, node_index) EXCEPT !.flags = @ \cup {TOP_TREE_LEAF}]),
              maps |-> [st.maps EXCEPT ![lp.array_index] = node_index]]
        ELSE top_tree_children(
                 [st EXCEPT !.nodes = create_children(labelled, node_index)],
                 lb, node_index, load_index, 0)

\* the rows of the remote-node table as resize() leaves them
RawRow == [map |-> NOT_EXIST, proc |-> NOT_EXIST, mass |-> 0, com |-> ZeroVec]

\* mutant of displacements: every displacement is 0
displacements_zero(cnts, i) == 0

\* send_disp from send_cnts: disp[0] = 0, disp[i] = cnts[i-1] + disp[i-1]
RECURSIVE displacements(_, _)
displacements(cnts, i) ==
    IF i = 0 THEN 0 ELSE cnts[i - 1] + displacements(cnts, i - 1)

\* mutant of reserve_top_tree: the pool is not resized before the copy
reserve_top_tree_none(pool, lb) == pool

\* self.nodes.resize(pool.number_nodes()): room for the whole top tree
reserve_top_tree(pool, lb) == PoolResize(pool, load_number_nodes(lb))

\* _build_top_tree of rank: [nodes, remote_nodes, send_cnts, send_disp]
build_top_tree(pool, lb, rank, nranks) ==
    LET nleaves == load_number_leaves(lb)
        sized == reserve_top_tree(pool, lb)
        top == create_top_tree(
                   [nodes |-> sized, maps |-> [a \in 0..(nleaves - 1) |-> NOT_EXIST]],
                   lb, ROOT, 0)
        rows == <<>> \o [a \in 1..nleaves |->
                    [RawRow EXCEPT !.map = top.maps[a - 1], !.proc = lb.leaf_pid[a]]]
        cnts == [q \in 0..(nranks - 1) |->
                    Cardinality({a \in 1..nleaves : lb.leaf_pid[a] = q})]
        remote == {top.maps[a - 1] : a \in {b \in 1..nleaves : lb.leaf_pid[b] # rank}}
    IN  [nodes |-> [top.nodes EXCEPT !.node_array = <<>> \o [n \in 1..top.nodes.used |->
                        IF (n - 1) \in remote
                        THEN [top.nodes.node_array[n] EXCEPT
                                 !.flags = @ \cup {SKIP_BRANCH, TOP_TREE_LEAF_REMOTE}]
                        ELSE top.nodes.node_array[n]]],
         remote_nodes |-> rows,
         send_cnts |-> cnts,
         send_disp |-> [q \in 0..(nranks - 1) |-> displacements(cnts, q)]]

\* _leaf_index_toptree(key)
leaf_index_toptree(lb, rows, key) ==
    rows[LoadAt(lb, find_leaf(lb, key, 0, 0)).array_index + 1].map

\* ------------------------------------------------------ remote moments
\* _export_import_remote_nodes before the Allgatherv: the rows of the rank
\* take the moments of their nodes
collect_local_rows(pool, rows, rank) ==
    <<>> \o [a \in 1..Len(rows) |->
        IF rows[a].proc = rank
        THEN [rows[a] EXCEPT !.mass = At(pool, rows[a].map).mass,
                             !.com = At(pool, rows[a].map).com]
        ELSE rows[a]]

\* the rank whose block [send_disp[q], send_disp[q] + send_cnts[q]) holds
\* row a (0-based), or -1
block_owner(cnt, a, nranks) ==
    LET owners == {q \in 0..(nranks - 1) :
                      cnt.send_disp[q] <= a /\ a < cnt.send_disp[q] + cnt.send_cnts[q]}
    IN  IF owners = {} THEN -1 ELSE CHOOSE q \in owners : \A o \in owners : q >= o

\* Allgatherv(IN_PLACE) of the moments: rank receives, for every rank q, the
\* block of q out of q's own rows
allgather_rows(all_rows, cnt, rank, nranks) ==
    <<>> \o [a \in 1..Len(all_rows[rank]) |->
        LET q == block_owner(cnt, a - 1, nranks)
        IN  IF q = -1 THEN all_rows[rank][a]
            ELSE [all_rows[rank][a] EXCEPT !.mass = all_rows[q][a].mass,
                                           !.com = all_rows[q][a].com]]

\* mutant of copy_remote_rows: the gathered rows are not copied into the tree
copy_remote_rows_none(pool, rows, rank) == pool

\* the rows of other ranks are copied into their nodes
copy_remote_rows(pool, rows, rank) ==
    LET remote == {a \in 1..Len(rows) : rows[a].proc # rank}
        row_of(n) == CHOOSE a \in remote : rows[a].map = n
    IN  [pool EXCEPT !.node_array = <<>> \o [n \in 1..pool.used |->
            IF \E a \in remote : rows[a].map = n - 1
            THEN [pool.node_array[n] EXCEPT !.mass = rows[row_of(n - 1)].mass,
                                            !.com = rows[row_of(n - 1)].com]
            ELSE pool.node_array[n]]]

RECURSIVE update_remote_moments(_, _), remote_children(_, _, _)
remote_children(acc, ind, sib) ==
    IF ind = sib THEN acc
    ELSE LET updated == update_remote_moments(acc.nodes, ind)
             child == At(updated, ind)
         IN  remote_children(add_child_moment([acc EXCEPT !.nodes = updated], child),
                 child.next_sibling, sib)

update_remote_moments(pool, current) ==
    LET node == At(pool, current)
    IN  IF TOP_TREE_LEAF \notin node.flags
        THEN LET acc == remote_children(
                     [nodes |-> pool, mass |-> 0, com |-> ZeroVec],
                     node.first_child, node.next_sibling)
             IN  SetAt(acc.nodes, current,
                     [At(acc.nodes, current) EXCEPT
                         !.mass = acc.mass,
                         !.com = IF acc.mass # 0
                                 THEN [k \in Axes |-> RatDiv(acc.com[k], acc.mass)]
                                 ELSE acc.com])
        ELSE pool

\* ------------------------------------------------------------ import walk
\* mutant of import_traverse: the imported particle takes the serial walk
import_traverse_serial(pool, x, angle, index) == serial_traverse(pool, x, angle, index)

\* the inner loop of _import_walk for the particle at x, from index
RECURSIVE import_traverse(_, _, _, _)
import_traverse(pool, x, angle, index) ==
    IF index = ROOT_SIBLING THEN <<>>
    ELSE LET node == At(pool, index)
             skip == <<<<"visit", index>>>>
                         \o import_traverse(pool, x, angle, node.next_sibling)
             add == <<<<"visit", index>>, <<"interact", index>>>>
                        \o import_traverse(pool, x, angle, node.next_sibling)
         IN  IF LEAF \in node.flags
             THEN IF TOP_TREE_LEAF_REMOTE \in node.flags THEN skip ELSE add
             ELSE IF SKIP_BRANCH \in node.flags THEN skip
                  ELSE IF split(node, x, angle)
                       THEN <<<<"visit", index>>>>
                                \o import_traverse(pool, x, angle, node.first_child)
                       ELSE IF TOP_TREE \in node.flags THEN skip ELSE add

\* the particles that the calls of process_particle select, from state it on
RECURSIVE processed(_, _)
processed(it, cont) ==
    LET pp == process_particle(it, cont)
    IN  IF pp.ret = 0 THEN {}
        ELSE {pp.current} \cup processed([it EXCEPT !.current = pp.current], cont)

\* mutant of import_walk: the acceleration of a received row is not zeroed
import_walk_kept(it, buf, rank, pool, angle) ==
    <<>> \o [k \in 1..Len(buf) |->
        IF (k - 1) \in processed(it, buf)
        THEN [buf[k] EXCEPT !.a = @ \o accumulate(
                 import_traverse(pool, buf[k].x, angle, ROOT), 1, rank, pool, buf[k].x)]
        ELSE buf[k]]

\* _import_walk over the container buf with interaction state it: every
\* selected row has its acceleration zeroed and then takes its walk
import_walk(it, buf, rank, pool, angle) ==
    <<>> \o [k \in 1..Len(buf) |->
        IF (k - 1) \in processed(it, buf)
        THEN [buf[k] EXCEPT !.a = accumulate(
                 import_traverse(pool, buf[k].x, angle, ROOT), 1, rank, pool, buf[k].x)]
        ELSE buf[k]]

\* ------------------------------------------------------------ export walk
\* particle_not_finished(index): the walk of the current particle is
\* suspended; index is where it is to continue
particle_not_finished(it, index) == [it EXCEPT !.start = index]

\* start_node_index(): the saved index of a suspended walk, else ROOT
start_node_index(it) == it.start

\* done_processing(): 1 iff the walk of every local particle has reached
\* ROOT_SIBLING; log is the record of the export walks of the rank so far
done_processing(cont, log) ==
    IF \A i \in 0..(Len(cont) - 1) :
           cont[i + 1].tag # Ghost => \E k \in 1..Len(log) : log[k] = <<"end", i>>
    THEN 1 ELSE 0

\* the inner loop of _export_walk for particle current at x, from index,
\* with length pairs in the buffers; further events: <<"export", n>> when
\* the pair for remote leaf n is appended, <<"pause", n>> when the walk
\* returns with n saved, <<"end", current>> when the loop ends
RECURSIVE export_traverse(_, _, _, _, _, _, _)
export_traverse(pool, x, angle, limit, length, current, index) ==
    IF index = -1 THEN <<<<"end", current>>>>
    ELSE LET node == At(pool, index)
             next == node.next_sibling
             add == <<<<"visit", index>>, <<"interact", index>>>>
                        \o export_traverse(pool, x, angle, limit, length, current, next)
         IN  IF LEAF \in node.flags
             THEN IF TOP_TREE_LEAF_REMOTE \in node.flags
                  THEN IF split(node, x, angle)
                       THEN <<<<"visit", index>>, <<"export", index>>>>
                                \o (IF length + 1 = limit
                                    THEN <<<<"pause", next>>>>
                                    ELSE export_traverse(pool, x, angle, limit,
                                             length + 1, current, next))
                       ELSE add
                  ELSE add
             ELSE IF split(node, x, angle)
                  THEN <<<<"visit", index>>>>
                           \o export_traverse(pool, x, angle, limit, length, current,
                                  node.first_child)
                  ELSE add

\* the destinations that the export events append to buffer_pid:
\* pid.data[node.index]
destinations(events, pool, rows) ==
    LET flagged == SelectSeq(events, LAMBDA e : e[1] = "export")
    IN  [k \in 1..Len(flagged) |-> rows[At(pool, flagged[k][2]).index + 1].proc]

Paused(events) == Len(events) > 0 /\ events[Len(events)][1] = "pause"

\* _export_walk from interaction state it with length pairs in the buffers:
\* [log, it, walked], walked the particles taken up by the call, each with
\* the acceleration it is left with and the destinations appended for it
RECURSIVE export_walk(_, _, _, _, _, _, _, _)
export_walk(it, cont, length, rank, pool, rows, angle, limit) ==
    LET pp == process_particle(it, cont)
        c == pp.current
        x == cont[c + 1].x
        from == start_node_index(it)
        t == export_traverse(pool, x, angle, limit, length, c, from)
        head == <<<<"particle", c>>, <<"start", from>>>> \o t
        mine == [id |-> c, a |-> accumulate(t, 1, rank, pool, x),
                 pids |-> destinations(t, pool, rows)]
        rest == export_walk([it EXCEPT !.current = c, !.start = ROOT], cont,
                    length + Len(mine.pids), rank, pool, rows, angle, limit)
    IN  IF pp.ret = 0
        THEN [log |-> <<>>, it |-> [it EXCEPT !.current = c], walked |-> <<>>]
        ELSE IF Paused(t)
             THEN [log |-> head,
                   it |-> particle_not_finished([it EXCEPT !.current = c],
                              t[Len(t)][2]),
                   walked |-> <<mine>>]
             ELSE [log |-> head \o rest.log, it |-> rest.it,
                   walked |-> <<mine>> \o rest.walked]

\* the accelerations of the particles that a call of the export walk took up
RECURSIVE store_walked(_, _, _)
store_walked(cont, walked, k) ==
    IF k > Len(walked) THEN cont
    ELSE store_walked([cont EXCEPT ![walked[k].id + 1].a = walked[k].a], walked, k + 1)

\* the pairs that a call of the export walk appended: [ids, pids]
RECURSIVE appended(_, _)
appended(walked, k) ==
    IF k > Len(walked) THEN [ids |-> <<>>, pids |-> <<>>]
    ELSE LET rest == appended(walked, k + 1)
         IN  [ids |-> [i \in 1..Len(walked[k].pids) |-> walked[k].id] \o rest.ids,
              pids |-> walked[k].pids \o rest.pids]

\* ----------------------------------------------------------------- inputs
Coords == {1, 2, 3}
Masses == {0, 1, 2}
\* the mass column of a Ghost row is never read by the tree
GhostMass == {1}
Thetas == {<<1, 2>>, <<1, 1>>}
LowerBounds == {0, 2 * Unit}

DomainAt(lo) ==
    [bounds |-> <<[k \in Axes |-> lo], [k \in Axes |-> lo + 4 * Unit]>>,
     max_length |-> 4 * Unit]
Domains == {DomainAt(lo) : lo \in LowerBounds}

\* the cell of the finest load-balance grid that holds x (the SFC key of x)
KeyOf(dom, x) == [k \in Axes |-> (x[k] - dom.bounds[1][k]) \div Unit]

Particle(dom, c, m, t) ==
    LET x == [k \in Axes |-> dom.bounds[1][k] + c[k] * Unit]
    IN  [x |-> x, mass |-> m, tag |-> t, key |-> KeyOf(dom, x), a |-> <<Stale>>]

ParticlesOf(dom) ==
    {Particle(dom, c, m, Real) : c \in [Axes -> Coords], m \in Masses}
        \cup {Particle(dom, c, m, Ghost) : c \in [Axes -> Coords], m \in GhostMass}

Containers(dom) ==
    UNION {[1..n -> ParticlesOf(dom)] : n \in 0..MaxParticles}

NoLoadBalance == [tree |-> <<>>, leaf_pid |-> <<>>]
NoCounts(n) ==
    [send_cnts |-> [q \in 0..(n - 1) |-> 0], send_disp |-> [q \in 0..(n - 1) |-> 0],
     recv_cnts |-> [q \in 0..(n - 1) |-> 0], recv_disp |-> [q \in 0..(n - 1) |-> 0]]

\* the state of n ranks after construction (_initialize)
Fresh(n) ==
    /\ nodes = [r \in 0..(n - 1) |-> PoolNew(PoolCapacity)]
    /\ remote_nodes = [r \in 0..(n - 1) |-> <<>>]
    /\ counts = [r \in 0..(n - 1) |-> NoCounts(n)]
    /\ interaction = [r \in 0..(n - 1) |->
           [current |-> -1, num_particles |-> 0, start |-> ROOT]]
    /\ buffer_id = [r \in 0..(n - 1) |-> <<>>]
    /\ buffer_pid = [r \in 0..(n - 1) |-> <<>>]
    /\ buffer_export = [r \in 0..(n - 1) |-> <<>>]
    /\ buffer_import = [r \in 0..(n - 1) |-> <<>>]
    /\ done = [r \in 0..(n - 1) |-> [loc_done |-> 0, glb_done |-> 0, rounds |-> 0]]
    /\ ctl = [r \in 0..(n - 1) |-> "init"]
    /\ bi = [r \in 0..(n - 1) |-> 0]
    /\ wlog = [r \in 0..(n - 1) |-> <<>>]

\* ------------------------------------------------------------------ build
Init ==
    /\ parallel = 0
    /\ size = 1
    /\ domain \in Domains
    /\ open_angle \in Thetas
    /\ max_export = 1
    /\ load_bal = NoLoadBalance
    /\ junk = 0
    /\ pc \in [0..0 -> Containers(domain)]
    /\ Fresh(1)

\* _build_tree up to the insertion loop: create_root
BuildRoot(r) ==
    /\ ctl[r] = "init"
    /\ parallel = 0
    /\ nodes' = [nodes EXCEPT ![r] = create_root(@, domain)]
    /\ ctl' = [ctl EXCEPT ![r] = "insert"]
    /\ bi' = [bi EXCEPT ![r] = 0]
    /\ UNCHANGED <<config, exchange, pc, interaction, wlog>>

\* mutant of start_node: the insertion starts at ROOT in a parallel run too
start_node_root(r, i) == ROOT

\* the node at which the insertion of particle i starts
start_node(r, i) ==
    IF parallel = 1
    THEN leaf_index_toptree(load_bal, remote_nodes[r], pc[r][i + 1].key)
    ELSE ROOT

\* one iteration of the loop over the particles of _build_tree
BuildInsert(r) ==
    /\ ctl[r] = "insert"
    /\ bi[r] < Len(pc[r])
    /\ LET i == bi[r]
           res == IF pc[r][i + 1].tag = Real
                  THEN insert_particle(nodes[r], pc[r], i, start_node(r, i))
                  ELSE [nodes |-> nodes[r], ok |-> TRUE]
       IN  /\ nodes' = [nodes EXCEPT ![r] = res.nodes]
           /\ ctl' = [ctl EXCEPT ![r] = IF res.ok THEN "insert" ELSE "overflow"]
           /\ bi' = [bi EXCEPT ![r] = i + 1]
    /\ UNCHANGED <<config, exchange, pc, interaction, wlog>>

\* _build_tree after the insertion loop: _update_moments(ROOT, ROOT_SIBLING)
BuildMoments(r) ==
    /\ ctl[r] = "insert"
    /\ bi[r] = Len(pc[r])
    /\ parallel = 0
    /\ nodes' = [nodes EXCEPT ![r] = update_moments(@, pc[r], ROOT, ROOT_SIBLING)]
    /\ ctl' = [ctl EXCEPT ![r] = "built"]
    /\ UNCHANGED <<config, exchange, pc, interaction, bi, wlog>>

\* ------------------------------------------------------------------- walk
\* walk(pc): initialize_particles, then the serial walk
WalkBegin(r) ==
    /\ ctl[r] = "built"
    /\ parallel = 0
    /\ interaction' = [interaction EXCEPT ![r] = initialize_particles(@, pc[r])]
    /\ ctl' = [ctl EXCEPT ![r] = "walk"]
    /\ wlog' = [wlog EXCEPT ![r] = <<>>]
    /\ UNCHANGED <<config, exchange, pc, nodes, bi>>

\* one iteration of the outer loop of _serial_walk
SerialWalkStep(r) ==
    /\ ctl[r] = "walk"
    /\ parallel = 0
    /\ LET pp == process_particle(interaction[r], pc[r])
           c == pp.current
       IN  /\ interaction' = [interaction EXCEPT ![r].current = c]
           /\ IF pp.ret = 1
              THEN LET x == pc[r][c + 1].x
                       t == serial_traverse(nodes[r], x, open_angle, ROOT)
                   IN  /\ pc' = [pc EXCEPT ![r][c + 1].a =
                                    accumulate(t, 1, r, nodes[r], x)]
                       /\ wlog' = [wlog EXCEPT ![r] = @ \o <<<<"particle", c>>>> \o t]
                       /\ ctl' = ctl
              ELSE /\ ctl' = [ctl EXCEPT ![r] = "walked"]
                   /\ UNCHANGED <<pc, wlog>>
    /\ UNCHANGED <<config, exchange, nodes, bi>>

Next ==
    \E r \in Ranks :
        \/ BuildRoot(r)
        \/ BuildInsert(r)
        \/ BuildMoments(r)
        \/ WalkBegin(r)
        \/ SerialWalkStep(r)

Spec == Init /\ [][Next]_vars

\* ---------------------------------------------------------- parallel run
\* load-balance trees: one leaf, or a root with its four leaves in Hilbert
\* order
zorder_to_hilbert == (0 :> 0) @@ (1 :> 3) @@ (2 :> 1) @@ (3 :> 2)
LoadLeaf(a) ==
    [children_start |-> -1, array_index |-> a, zorder_to_hilbert |-> zorder_to_hilbert]
LoadParent(offset) ==
    [children_start |-> offset, array_index |-> -1,
     zorder_to_hilbert |-> zorder_to_hilbert]
LoadTreeOne == <<LoadLeaf(0)>>
LoadTreeFour == <<LoadParent(1)>> \o [h \in 1..number_nodes |-> LoadLeaf(h - 1)]
\* two levels: the first cell along the curve is refined into four leaves,
\* stored after the children of the root; the leaves keep SFC order
LoadTreeSeven ==
    <<LoadParent(1), LoadParent(number_nodes)>>
        \o [h \in 1..(number_nodes - 1) |-> LoadLeaf(number_nodes + h - 1)]
        \o [h \in 1..number_nodes |-> LoadLeaf(h - 1)]
\* where the curve of the two-level tree is cut between two ranks: the
\* number of leaves of the first rank
SevenCuts == {2, 5}

\* leaf_pid is cut along the curve: owners do not decrease with array_index
LoadBalances(n) ==
    {[tree |-> LoadTreeOne, leaf_pid |-> <<0>>]}
        \cup {[tree |-> LoadTreeFour, leaf_pid |-> owners] :
                 owners \in {o \in [1..number_nodes -> 0..(n - 1)] :
                                /\ o[1] = 0
                                /\ o[number_nodes] \in {0, n - 1}
                                /\ \A a \in 1..(number_nodes - 1) : o[a] <= o[a + 1]}}
        \cup {[tree |-> LoadTreeSeven,
              leaf_pid |-> [a \in 1..(2 * number_nodes - 1) |->
                               IF a <= cut THEN 0 ELSE n - 1]] : cut \in SevenCuts}

Sizes == {1, 2}
Exports == {1, 2}
ParMasses == {1}

\* the rank that owns the top-tree leaf of a key
owner_of(lb, key) == lb.leaf_pid[LoadAt(lb, find_leaf(lb, key, 0, 0)).array_index + 1]

\* the particles of a parallel run: Real particles, and a Ghost copy
ParParticles(dom) ==
    {Particle(dom, c, m, Real) : c \in [Axes -> Coords], m \in ParMasses}
        \cup {Particle(dom, [k \in Axes |-> 1], m, Ghost) : m \in GhostMass}

\* the container of rank r: the Real particles of all whose key r owns,
\* then the Ghost rows on rank 0
Distribute(all, lb, r) ==
    SelectSeq(all, LAMBDA q : \/ q.tag = Real /\ owner_of(lb, q.key) = r
                              \/ q.tag = Ghost /\ r = 0)

InitPar ==
    /\ parallel = 1
    /\ size \in Sizes
    /\ domain = DomainAt(0)
    /\ open_angle \in Thetas
    /\ max_export \in Exports
    /\ load_bal \in LoadBalances(size)
    /\ junk \in 0..(load_number_leaves(load_bal) - 1)
    /\ \E all \in UNION {[1..n -> ParParticles(domain)] : n \in 0..MaxParticles} :
           pc = [r \in 0..(size - 1) |-> Distribute(all, load_bal, r)]
    /\ Fresh(size)

\* _build_tree up to the insertion loop: create_root, _build_top_tree
BuildTopTree(r) ==
    /\ ctl[r] = "init"
    /\ parallel = 1
    /\ LET top == build_top_tree(create_root(nodes[r], domain), load_bal, r, size)
       IN  /\ nodes' = [nodes EXCEPT ![r] = top.nodes]
           /\ remote_nodes' = [remote_nodes EXCEPT ![r] = top.remote_nodes]
           /\ counts' = [counts EXCEPT ![r].send_cnts = top.send_cnts,
                                       ![r].send_disp = top.send_disp]
    /\ ctl' = [ctl EXCEPT ![r] = "insert"]
    /\ bi' = [bi EXCEPT ![r] = 0]
    /\ UNCHANGED <<config, buffer_id, buffer_pid, buffer_export, buffer_import,
                   done, pc, interaction, wlog>>

\* _build_tree after the insertion loop: _update_moments(ROOT, ROOT_SIBLING)
\* and _export_import_remote_nodes up to the Allgatherv
BuildMomentsPar(r) ==
    /\ ctl[r] = "insert"
    /\ bi[r] = Len(pc[r])
    /\ parallel = 1
    /\ LET local == update_moments(nodes[r], pc[r], ROOT, ROOT_SIBLING)
       IN  /\ nodes' = [nodes EXCEPT ![r] = local]
           /\ remote_nodes' = [remote_nodes EXCEPT ![r] =
                                  collect_local_rows(local, @, r)]
    /\ ctl' = [ctl EXCEPT ![r] = "gather"]
    /\ UNCHANGED <<config, counts, buffer_id, buffer_pid, buffer_export,
                   buffer_import, done, pc, interaction, bi, wlog>>

\* the Allgatherv of the moments, and on every rank the rest of
\* _export_import_remote_nodes
GatherMoments ==
    /\ \A r \in Ranks : ctl[r] = "gather"
    /\ LET rows == [r \in Ranks |-> allgather_rows(remote_nodes, counts[r], r, size)]
       IN  /\ remote_nodes' = rows
           /\ nodes' = [r \in Ranks |->
                  update_remote_moments(copy_remote_rows(nodes[r], rows[r], r), ROOT)]
    /\ ctl' = [r \in Ranks |-> "built"]
    /\ UNCHANGED <<config, counts, buffer_id, buffer_pid, buffer_export,
                   buffer_import, done, pc, interaction, bi, wlog>>

\* walk(pc) and _parallel_walk up to the round loop
WalkBeginPar(r) ==
    /\ ctl[r] = "built"
    /\ parallel = 1
    /\ interaction' = [interaction EXCEPT ![r] = initialize_particles(@, pc[r])]
    /\ buffer_id' = [buffer_id EXCEPT ![r] = <<>>]
    /\ buffer_pid' = [buffer_pid EXCEPT ![r] = <<>>]
    /\ done' = [done EXCEPT ![r] = [loc_done |-> 0, glb_done |-> 0, rounds |-> 0]]
    /\ ctl' = [ctl EXCEPT ![r] = "export"]
    /\ wlog' = [wlog EXCEPT ![r] = <<>>]
    /\ UNCHANGED <<config, remote_nodes, counts, buffer_export, buffer_import,
                   pc, nodes, bi>>

\* argsort of the destinations: positions by destination rank, positions of
\* one destination in buffer order
RECURSIVE argsort(_, _, _)
argsort(pids, q, nranks) ==
    IF q >= nranks THEN <<>>
    ELSE SelectSeq([i \in 1..Len(pids) |-> i], LAMBDA i : pids[i] = q)
             \o argsort(pids, q + 1, nranks)

\* send_cnts: how many particles go to each rank
count_exports(pids, nranks) ==
    [q \in 0..(nranks - 1) |-> Cardinality({i \in 1..Len(pids) : pids[i] = q})]

\* one round up to the Alltoall: the export walk, the sort by destination
\* and the count of the exports
RoundExport(r) ==
    /\ ctl[r] = "export"
    /\ LET w == export_walk(interaction[r], pc[r], Len(buffer_pid[r]), r, nodes[r],
                    remote_nodes[r], open_angle, max_export)
           new == appended(w.walked, 1)
           ids == buffer_id[r] \o new.ids
           pids == buffer_pid[r] \o new.pids
           ind == argsort(pids, 0, size)
           sorted == [i \in 1..Len(ind) |-> pids[ind[i]]]
       IN  /\ interaction' = [interaction EXCEPT ![r] = w.it]
           /\ pc' = [pc EXCEPT ![r] = store_walked(@, w.walked, 1)]
           /\ wlog' = [wlog EXCEPT ![r] = @ \o <<<<"call", done[r].rounds>>>> \o w.log]
           /\ buffer_id' = [buffer_id EXCEPT ![r] = [i \in 1..Len(ind) |-> ids[ind[i]]]]
           /\ buffer_pid' = [buffer_pid EXCEPT ![r] = sorted]
           /\ counts' = [counts EXCEPT
                            ![r].send_cnts = count_exports(sorted, size),
                            ![r].recv_cnts = [q \in Ranks |-> 0]]
    /\ ctl' = [ctl EXCEPT ![r] = "exchange"]
    /\ UNCHANGED <<config, remote_nodes, buffer_export, buffer_import, done,
                   nodes, bi>>

\* exchange_particles: rank r receives from every rank q, at recv_disp[q], the
\* block of q's send buffer that q counted for r
exchange_particles(send, cnt, r, nranks) ==
    LET RECURSIVE From(_)
        From(q) == IF q >= nranks THEN <<>>
                   ELSE SubSeq(send[q], cnt[q].send_disp[r] + 1,
                               cnt[q].send_disp[r] + cnt[q].send_cnts[r])
                            \o From(q + 1)
    IN  From(0)

\* the Alltoall of the counts, the displacements, the copy of the flagged
\* particles into buffer_export and the exchange into buffer_import
ParticlesOut ==
    /\ \A r \in Ranks : ctl[r] = "exchange"
    /\ LET recv == [r \in Ranks |-> [q \in Ranks |-> counts[q].send_cnts[r]]]
           cnt == [r \in Ranks |->
                      [send_cnts |-> counts[r].send_cnts,
                       recv_cnts |-> recv[r],
                       send_disp |-> [q \in Ranks |->
                                         displacements(counts[r].send_cnts, q)],
                       recv_disp |-> [q \in Ranks |-> displacements(recv[r], q)]]]
           out == [r \in Ranks |->
                      [i \in 1..Len(buffer_id[r]) |-> pc[r][buffer_id[r][i] + 1]]]
       IN  /\ counts' = cnt
           /\ buffer_export' = out
           /\ buffer_import' = [r \in Ranks |-> exchange_particles(out, cnt, r, size)]
    /\ ctl' = [r \in Ranks |-> "import"]
    /\ UNCHANGED <<config, remote_nodes, buffer_id, buffer_pid, done, pc, nodes,
                   interaction, bi, wlog>>

\* the walk of the imported particles
RoundImport(r) ==
    /\ ctl[r] = "import"
    /\ buffer_import' = [buffer_import EXCEPT ![r] =
           import_walk(initialize_particles(interaction[r], @), @, r, nodes[r],
               open_angle)]
    /\ ctl' = [ctl EXCEPT ![r] = "return"]
    /\ UNCHANGED <<config, remote_nodes, counts, buffer_id, buffer_pid,
                   buffer_export, done, pc, nodes, interaction, bi, wlog>>

\* the particles come back: the row that rank r sent at position i of its
\* send buffer, as the rank it went to holds it now
returned_row(imported, cnt, pids, r, i) ==
    LET q == pids[i]
    IN  imported[q][cnt[q].recv_disp[r] + (i - cnt[r].send_disp[q])]

\* pc.insert of the returned rows: the accelerations are added to those of
\* the particles they were copied from
RECURSIVE insert_returned(_, _, _, _)
insert_returned(cont, ids, back, i) ==
    IF i > Len(ids) THEN cont
    ELSE insert_returned(
             [cont EXCEPT ![ids[i] + 1].a = @ \o back[i].a], ids, back, i + 1)

\* the exit test of the round loop
walk_complete(glb_done, nranks) == glb_done = nranks

\* the exchange back, the copy into the particles, and the Allreduce of
\* done_processing with the exit test of the round loop
ParticlesBack ==
    /\ \A r \in Ranks : ctl[r] = "return"
    /\ \A r \in Ranks : done[r].rounds < MaxRounds
    /\ LET back == [r \in Ranks |->
                       [i \in 1..Len(buffer_id[r]) |->
                           returned_row(buffer_import, counts, buffer_pid[r], r, i)]]
           loc == [r \in Ranks |-> done_processing(pc[r], wlog[r])]
           RECURSIVE Sum(_)
           Sum(q) == IF q >= size THEN 0 ELSE loc[q] + Sum(q + 1)
           glb == Sum(0)
       IN  /\ buffer_export' = back
           /\ pc' = [r \in Ranks |-> insert_returned(pc[r], buffer_id[r], back[r], 1)]
           /\ done' = [r \in Ranks |->
                  [loc_done |-> loc[r], glb_done |-> glb,
                   rounds |-> done[r].rounds + 1]]
           /\ ctl' = [r \in Ranks |->
                  IF walk_complete(glb, size) THEN "walked" ELSE "export"]
    /\ UNCHANGED <<config, remote_nodes, counts, buffer_id, buffer_pid,
                   buffer_import, nodes, interaction, bi, wlog>>

NextPar ==
    \/ \E r \in Ranks :
        \/ BuildTopTree(r)
        \/ BuildInsert(r)
        \/ BuildMomentsPar(r)
        \/ WalkBeginPar(r)
        \/ RoundExport(r)
        \/ RoundImport(r)
    \/ GatherMoments
    \/ ParticlesOut
    \/ ParticlesBack

SpecPar == InitPar /\ [][NextPar]_vars

\* ------------------------------------------------------- vocabulary of claims
Built(r) == ctl[r] \in {"built", "walk", "walked"}
Used(pool) == 0..(pool.used - 1)
IsLeaf(node) == LEAF \in node.flags
HoldsParticle(node) == LEAF \in node.flags /\ HAS_PARTICLE \in node.flags
Populated(node) == {s \in Slots : node.children[s] # NOT_EXIST}
Indices(cont) == 0..(Len(cont) - 1)
RealIn(cont) == {i \in Indices(cont) : cont[i + 1].tag = Real}

RECURSIVE SumF(_, _)
SumF(f, S) ==
    IF S = {} THEN 0
    ELSE LET x == CHOOSE y \in S : TRUE IN f[x] + SumF(f, S \ {x})

RECURSIVE RatSumF(_, _)
RatSumF(f, S) ==
    IF S = {} THEN RatZero
    ELSE LET x == CHOOSE y \in S : TRUE IN RatAdd(f[x], RatSumF(f, S \ {x}))

\* the tree in pre-order by the children slots: a node, then the subtrees of
\* its populated slots in increasing slot order
RECURSIVE Preorder(_, _), PreorderSlots(_, _, _)
PreorderSlots(pool, node, s) ==
    IF s >= number_nodes THEN <<>>
    ELSE (IF node.children[s] = NOT_EXIST THEN <<>>
          ELSE Preorder(pool, node.children[s]))
         \o PreorderSlots(pool, node, s + 1)
Preorder(pool, index) ==
    <<index>> \o (IF IsLeaf(At(pool, index)) THEN <<>>
                  ELSE PreorderSlots(pool, At(pool, index), 0))

\* the nodes met from index by first_child at a non-leaf and next_sibling at
\* a leaf; <<-2>> ends the sequence if the thread leaves the pool or does not
\* end within fuel steps
RECURSIVE ThreadFrom(_, _, _)
ThreadFrom(pool, index, fuel) ==
    IF index = ROOT_SIBLING THEN <<>>
    ELSE IF fuel = 0 \/ index \notin Used(pool) THEN <<-2>>
    ELSE <<index>> \o ThreadFrom(pool,
             IF IsLeaf(At(pool, index)) THEN At(pool, index).next_sibling
             ELSE At(pool, index).first_child,
             fuel - 1)

SeqRange(q) == {q[i] : i \in 1..Len(q)}

AllWalked == \A r \in Ranks : ctl[r] = "walked"

\* the node of rank q that holds particle j
HolderOf(q, j) ==
    CHOOSE n \in Used(nodes[q]) :
        HoldsParticle(At(nodes[q], n)) /\ At(nodes[q], n).pid = j

\* TRUE iff node leaf is node n or lies below it
RECURSIVE Below(_, _, _)
Below(pool, n, leaf) ==
    \/ n = leaf
    \/ /\ ~IsLeaf(At(pool, n))
       /\ \E s \in Populated(At(pool, n)) : Below(pool, At(pool, n).children[s], leaf)

\* TRUE iff contribution c carries the mass of particle j of rank q: c is a
\* node of rank q above j's leaf, or the copy of such a top-tree node on
\* another rank
Carries(c, q, j) ==
    /\ c.rank \in Ranks
    /\ c.node \in Used(nodes[q])
    /\ c.rank # q => TOP_TREE \in At(nodes[c.rank], c.node).flags
    /\ Below(nodes[q], c.node, HolderOf(q, j))

\* the particle that the walk event k of a log belongs to
ParticleAt(log, k) ==
    LET starts == {m \in 1..k : log[m][1] = "particle"}
    IN  IF starts = {} THEN -1
        ELSE log[CHOOSE m \in starts : \A o \in starts : o <= m][2]

\* the nodes that the export walk of rank r has visited for particle p
VisitsOf(log, p) ==
    LET at == SelectSeq([k \in 1..Len(log) |-> k],
                  LAMBDA k : log[k][1] = "visit" /\ ParticleAt(log, k) = p)
    IN  [k \in 1..Len(at) |-> log[at[k]][2]]

\* the nodes of one walk of particle p of rank r from ROOT to ROOT_SIBLING
\* that no full buffer interrupts
WholeWalk(r, p) ==
    LET t == export_traverse(nodes[r], pc[r][p + 1].x, open_angle, -1, 0, p, ROOT)
        at == SelectSeq(t, LAMBDA e : e[1] = "visit")
    IN  [k \in 1..Len(at) |-> at[k][2]]

\* --------------------------------------------------------------- claims
\* C1 as stated: parallel walk on more than one rank, every Real particle on
\* the rank that owns the top-tree leaf of its key; once the round loop has
\* ended, the acceleration of every local Real particle i holds, for every
\* other Real particle j of any rank, exactly one contribution that carries
\* the mass of j (j's leaf or one accepted ancestor), export walk and import
\* walks counted together.
C1_EachMassOnce ==
    (parallel = 1 /\ size > 1 /\ AllWalked) =>
        \A r \in Ranks : \A i \in RealIn(pc[r]) :
            \A q \in Ranks : \A j \in RealIn(pc[q]) :
                (q # r \/ j # i) =>
                    LET a == pc[r][i + 1].a
                    IN  Cardinality({k \in 1..Len(a) : Carries(a[k], q, j)}) = 1

\* C2 as stated: in every state of the parallel walk buffer_id and
\* buffer_pid have the same length, hold at most max_export pairs, and an
\* export walk that has filled the buffer has returned through the pause.
C2_BufferWithinMaxExport ==
    parallel = 1 =>
        \A r \in Ranks :
            /\ Len(buffer_id[r]) = Len(buffer_pid[r])
            /\ Len(buffer_pid[r]) <= max_export
            /\ (ctl[r] = "exchange" /\ Len(buffer_pid[r]) = max_export) =>
                   wlog[r][Len(wlog[r])][1] = "pause"

\* C3 as stated: after a pause on particle p the next call of the export
\* walk continues with p at the saved next_sibling; the walker moves to
\* another particle only after p's traversal has reached ROOT_SIBLING; and
\* over the calls the nodes visited for p are those of one whole walk, none
\* omitted and none visited twice.
C3_ResumeSameParticle ==
    parallel = 1 =>
        \A r \in Ranks :
            LET log == wlog[r]
            IN  /\ \A k \in 1..Len(log) :
                      (log[k][1] = "pause" /\ k < Len(log)) =>
                          /\ Len(log) >= k + 3
                          /\ log[k + 1][1] = "call"
                          /\ log[k + 2] = <<"particle", ParticleAt(log, k)>>
                          /\ log[k + 3] = <<"start", log[k][2]>>
                /\ \A k \in 2..Len(log) :
                      (log[k][1] = "particle" /\ ParticleAt(log, k - 1) \notin {-1, log[k][2]}) =>
                          \E m \in 1..(k - 1) : log[m] = <<"end", ParticleAt(log, k - 1)>>
                /\ ctl[r] = "walked" =>
                      \A p \in RealIn(pc[r]) : VisitsOf(log, p) = WholeWalk(r, p)

\* C4 as stated: the parallel walk terminates. The cursor of a rank only
\* moves forward, so the walk terminates iff no rank comes to a round with
\* no particle left to take up while its local_done is still 0: such a rank
\* adds 0 to the all-reduced sum in every later round, and the sum never
\* equals the number of ranks.
C4_WalkTerminates ==
    parallel = 1 =>
        \A r \in Ranks :
            (ctl[r] = "export" /\ process_particle(interaction[r], pc[r]).ret = 0) =>
                done_processing(pc[r], wlog[r]) = 1

\* C5 as stated: all ranks run the same number of rounds and leave the loop
\* together; a rank whose particles are all done takes part in the next
\* round with zero exports; local_done is 1 on a rank only when every local
\* Real particle has reached ROOT_SIBLING.
C5_RoundsInStep ==
    parallel = 1 =>
        \A r \in Ranks :
            /\ \A q \in Ranks :
                  /\ done[r].rounds = done[q].rounds
                  /\ ctl[r] = "walked" => ctl[q] = "walked"
            /\ (ctl[r] = "exchange" /\ done[r].loc_done = 1) =>
                   \A q \in Ranks : counts[r].send_cnts[q] = 0
            /\ done[r].loc_done = 1 =>
                   \A p \in RealIn(pc[r]) :
                       \E k \in 1..Len(wlog[r]) : wlog[r][k] = <<"end", p>>

\* C6: after build, the traversal from ROOT by first_child at non-leaves and
\* next_sibling at leaves visits every used node exactly once, in the
\* pre-order of the children slots (parents first, siblings by increasing
\* Z-order slot), and ends at ROOT_SIBLING.
C6_ThreadIsPreorder ==
    \A r \in Ranks : Built(r) =>
        LET t == ThreadFrom(nodes[r], ROOT, nodes[r].used + 1)
        IN  /\ t = Preorder(nodes[r], ROOT)
            /\ Len(t) = nodes[r].used
            /\ SeqRange(t) = Used(nodes[r])

C6_Witness ==
    \E r \in Ranks :
        /\ Built(r)
        /\ nodes[r].used >= 4
        /\ \E n \in Used(nodes[r]) :
              /\ n # ROOT
              /\ Cardinality(Populated(At(nodes[r], n))) >= 2

\* C7: after build, every Real particle is held by exactly one node that is
\* LEAF and HAS_PARTICLE with its index as pid, no Ghost particle is held by
\* any node, and every held pid is a particle index.
C7_OneLeafPerReal ==
    \A r \in Ranks : Built(r) =>
        LET holders(i) == {n \in Used(nodes[r]) :
                              /\ HoldsParticle(At(nodes[r], n))
                              /\ At(nodes[r], n).pid = i}
        IN  /\ \A i \in Indices(pc[r]) :
                  IF pc[r][i + 1].tag = Real
                  THEN Cardinality(holders(i)) = 1
                  ELSE holders(i) = {}
            /\ \A n \in Used(nodes[r]) :
                  HAS_PARTICLE \in At(nodes[r], n).flags =>
                      /\ IsLeaf(At(nodes[r], n))
                      /\ At(nodes[r], n).pid \in Indices(pc[r])

C7_Witness ==
    \E r \in Ranks :
        /\ Built(r)
        /\ Cardinality(RealIn(pc[r])) = 2
        /\ \E i \in Indices(pc[r]) : pc[r][i + 1].tag = Real /\ i > 0
        /\ nodes[r].used >= 3

\* C8 as stated: after build, the particle of every LEAF with HAS_PARTICLE
\* lies in the half-open cell center - width/2 <= p < center + width/2.
C8_HalfOpenContainment ==
    \A r \in Ranks : Built(r) =>
        \A n \in Used(nodes[r]) :
            LET node == At(nodes[r], n)
            IN  HoldsParticle(node) =>
                    \A k \in Axes :
                        /\ 2 * node.center[k] - node.width <= 2 * pc[r][node.pid + 1].x[k]
                        /\ 2 * pc[r][node.pid + 1].x[k] < 2 * node.center[k] + node.width

\* C9: after a serial build, root.mass is the sum of the masses of the Real
\* particles of the container; Ghost particles add nothing.
C9_RootMass ==
    \A r \in Ranks : (Built(r) /\ parallel = 0) =>
        At(nodes[r], ROOT).mass
            = SumF([i \in RealIn(pc[r]) |-> pc[r][i + 1].mass], RealIn(pc[r]))

C9_Witness ==
    \E r \in Ranks :
        /\ Built(r) /\ parallel = 0
        /\ ~IsLeaf(At(nodes[r], ROOT))
        /\ At(nodes[r], ROOT).mass = 3

\* C10: after update_moments, every non-leaf has the sum of its children's
\* masses, its com times its mass is the sum of the children's mass times
\* com when the mass is positive, its com is zero when the mass is zero; so
\* root.com is the mass-weighted mean of the Real particle positions.
C10_Moments ==
    \A r \in Ranks : (Built(r) /\ parallel = 0) =>
        /\ \A n \in Used(nodes[r]) :
              LET node == At(nodes[r], n)
                  kids == {node.children[s] : s \in Populated(node)}
              IN  ~IsLeaf(node) =>
                    /\ node.mass = SumF([c \in kids |-> At(nodes[r], c).mass], kids)
                    /\ node.mass > 0 =>
                          \A k \in Axes :
                              RatScale(node.mass, node.com[k])
                                  = RatSumF([c \in kids |->
                                        RatScale(At(nodes[r], c).mass,
                                                 At(nodes[r], c).com[k])], kids)
                    /\ node.mass = 0 => node.com = ZeroVec
        /\ LET root == At(nodes[r], ROOT)
           IN  root.mass > 0 =>
                   \A k \in Axes :
                       RatScale(root.mass, root.com[k])
                           = RatInt(SumF([i \in RealIn(pc[r]) |->
                                 pc[r][i + 1].mass * pc[r][i + 1].x[k]], RealIn(pc[r])))

C10_Witness ==
    \E r \in Ranks :
        /\ Built(r) /\ parallel = 0
        /\ ~IsLeaf(At(nodes[r], ROOT))
        /\ At(nodes[r], ROOT).mass = 3
        /\ \E k \in Axes : At(nodes[r], ROOT).com[k][2] = 3

\* ------------------------------------------------ remote moment exchange
\* TRUE iff rank r has returned from _export_import_remote_nodes
Gathered(r) ==
    parallel = 1 /\ ctl[r] \notin {"init", "insert", "overflow", "gather"}

\* the Real particles of all ranks, <<rank, index>>
GlobalReal == {p \in Ranks \X (0..(MaxParticles + 1)) : p[2] \in RealIn(pc[p[1]])}

\* the Real particles of all ranks whose key falls in a top-tree leaf at or
\* beneath node n, in the tree of rank r
Beneath(r, n) ==
    {p \in GlobalReal :
        Below(nodes[r], n,
            leaf_index_toptree(load_bal, remote_nodes[r], pc[p[1]][p[2] + 1].key))}

\* C11: after the remote moment exchange every TOP_TREE node of every rank
\* has the mass and the mass-weighted com of the Real particles of all ranks
\* whose keys fall in the top-tree leaves beneath it; every top-tree leaf
\* holds on every rank the moments its owning rank computed; root.mass is
\* the same on all ranks and is the global total mass.
C11_GlobalMoments ==
    \A r \in Ranks : Gathered(r) =>
        /\ \A n \in Used(nodes[r]) :
              LET node == At(nodes[r], n)
                  S == Beneath(r, n)
              IN  TOP_TREE \in node.flags =>
                    /\ node.mass = SumF([p \in S |-> pc[p[1]][p[2] + 1].mass], S)
                    /\ node.mass > 0 =>
                          \A k \in Axes :
                              RatScale(node.mass, node.com[k])
                                  = RatInt(SumF([p \in S |->
                                        pc[p[1]][p[2] + 1].mass
                                            * pc[p[1]][p[2] + 1].x[k]], S))
        /\ \A a \in 1..Len(remote_nodes[r]) :
              LET row == remote_nodes[r][a]
              IN  /\ At(nodes[r], row.map).mass = At(nodes[row.proc], row.map).mass
                  /\ At(nodes[r], row.map).com = At(nodes[row.proc], row.map).com
        /\ \A q \in Ranks :
              At(nodes[r], ROOT).mass = At(nodes[q], ROOT).mass
        /\ At(nodes[r], ROOT).mass
               = SumF([p \in GlobalReal |-> pc[p[1]][p[2] + 1].mass], GlobalReal)

C11_Witness ==
    /\ size = 2
    /\ \A r \in Ranks : Gathered(r) /\ RealIn(pc[r]) # {}
    /\ At(nodes[0], ROOT).mass = 2
    /\ \E n \in Used(nodes[0]) :
          /\ TOP_TREE_LEAF_REMOTE \in At(nodes[0], n).flags
          /\ At(nodes[0], n).mass = 1

\* ------------------------------------------------- the node pool on its own
\* GravityNodePool driven directly: any sequence of get, resize and reset on
\* a pool of any small capacity. wlog[0] holds the last call as
\* <<name, argument, used before, capacity before>>.
MaxPool == 8
Capacities == 1..3
Counts == 1..3
ResizeTo == 0..(MaxPool + 1)

InitPool ==
    /\ parallel = 0
    /\ size = 1
    /\ domain = DomainAt(0)
    /\ open_angle = <<1, 1>>
    /\ max_export = 1
    /\ load_bal = NoLoadBalance
    /\ junk = 0
    /\ pc = [r \in 0..0 |-> <<>>]
    /\ \E c \in Capacities : nodes = [r \in 0..0 |-> PoolNew(c)]
    /\ remote_nodes = [r \in 0..0 |-> <<>>]
    /\ counts = [r \in 0..0 |-> NoCounts(1)]
    /\ interaction = [r \in 0..0 |-> [current |-> -1, num_particles |-> 0, start |-> ROOT]]
    /\ buffer_id = [r \in 0..0 |-> <<>>]
    /\ buffer_pid = [r \in 0..0 |-> <<>>]
    /\ buffer_export = [r \in 0..0 |-> <<>>]
    /\ buffer_import = [r \in 0..0 |-> <<>>]
    /\ done = [r \in 0..0 |-> [loc_done |-> 0, glb_done |-> 0, rounds |-> 0]]
    /\ ctl = [r \in 0..0 |-> "pool"]
    /\ bi = [r \in 0..0 |-> 0]
    /\ wlog = [r \in 0..0 |-> <<>>]

PoolCall(name, arg) == <<name, arg, nodes[0].used, nodes[0].capacity>>

\* get(count)
PoolGetStep ==
    /\ ctl[0] = "pool"
    /\ \E count \in Counts :
          /\ nodes[0].used + count <= MaxPool
          /\ nodes' = [nodes EXCEPT ![0] = PoolGet(@, count)]
          /\ wlog' = [wlog EXCEPT ![0] = <<PoolCall("get", count)>>]
    /\ UNCHANGED <<config, exchange, pc, interaction, ctl, bi>>

\* resize(to)
PoolResizeStep ==
    /\ ctl[0] = "pool"
    /\ \E to \in ResizeTo :
          /\ nodes' = [nodes EXCEPT ![0] = PoolResize(@, to)]
          /\ wlog' = [wlog EXCEPT ![0] = <<PoolCall("resize", to)>>]
    /\ UNCHANGED <<config, exchange, pc, interaction, ctl, bi>>

\* reset()
PoolResetStep ==
    /\ ctl[0] = "pool"
    /\ nodes' = [nodes EXCEPT ![0] = PoolReset(@)]
    /\ wlog' = [wlog EXCEPT ![0] = <<PoolCall("reset", 0)>>]
    /\ UNCHANGED <<config, exchange, pc, interaction, ctl, bi>>

NextPool == PoolGetStep \/ PoolResizeStep \/ PoolResetStep

SpecPool == InitPool /\ [][NextPool]_vars

\* the last call on the pool, if it was `name`
LastCall(name) ==
    /\ ctl[0] = "pool"
    /\ Len(wlog[0]) = 1
    /\ wlog[0][1][1] = name

\* TRUE iff c is c0 doubled some number of times (possibly none)
RECURSIVE Doubled(_, _)
Doubled(c0, c) == c = c0 \/ (c0 >= 1 /\ c0 < c /\ Doubled(2 * c0, c))

\* C12 as stated: get(n) with n >= 1 on a pool of capacity >= 1 hands out
\* the n slots from the previous used on, raises used by exactly n, leaves
\* used <= capacity, and the capacity is the previous one doubled as often
\* as needed, also when n exceeds the capacity.
C12_GetWithinCapacity ==
    LastCall("get") =>
        LET n == wlog[0][1][2]
            used0 == wlog[0][1][3]
            capacity0 == wlog[0][1][4]
        IN  used0 <= capacity0 =>
              /\ nodes[0].used = used0 + n
              /\ Len(nodes[0].node_array) = used0 + n
              /\ nodes[0].used <= nodes[0].capacity
              /\ Doubled(capacity0, nodes[0].capacity)

\* C13: reset() sets used to 0 and keeps the capacity; no call lowers the
\* capacity; resize(size) with size <= capacity changes nothing.
C13_CapacityNeverLowered ==
    (ctl[0] = "pool" /\ Len(wlog[0]) = 1) =>
        LET arg == wlog[0][1][2]
            used0 == wlog[0][1][3]
            capacity0 == wlog[0][1][4]
        IN  /\ nodes[0].capacity >= capacity0
            /\ LastCall("reset") =>
                  nodes[0].used = 0 /\ nodes[0].capacity = capacity0
            /\ (LastCall("resize") /\ arg <= capacity0) =>
                  nodes[0].used = used0 /\ nodes[0].capacity = capacity0

C13_Witness ==
    /\ LastCall("reset")
    /\ wlog[0][1][3] > 0
    /\ nodes[0].used = 0
    /\ nodes[0].capacity > 3

\* ------------------------------------------------------ degenerate insertion
\* TRUE iff the insertion loop of rank r has subdivided down to the finest
\* cell that the fixed-point coordinates resolve without separating the
\* particle it inserts from the one in its way, and subdivides again: the
\* loop has no other exit than storing the particle
Subdividing(r) == ctl[r] = "overflow"

\* C14 as stated: the insertion of every particle ends; with two Real
\* particles at the same coordinates the loop stops at a depth cap (and
\* reports both indices) instead of subdividing the cell again and again.
C14_InsertionTerminates ==
    \A r \in Ranks : ~Subdividing(r)

\* ------------------------------------------------------- self interaction
\* TRUE iff the Real particles of rank r have pairwise distinct positions
DistinctPositions(r) ==
    \A i, j \in RealIn(pc[r]) : i # j => pc[r][i + 1].x # pc[r][j + 1].x

\* TRUE iff every Real particle of rank r lies in the domain
InDomain(r) ==
    \A i \in RealIn(pc[r]) : \A k \in Axes :
        /\ domain.bounds[1][k] <= pc[r][i + 1].x[k]
        /\ pc[r][i + 1].x[k] <= domain.bounds[2][k]

\* the leaves on which the walk of particle i of rank r called interact
InteractedLeaves(r, i) ==
    {n \in Used(nodes[r]) :
        /\ IsLeaf(At(nodes[r], n))
        /\ \E k \in 1..Len(wlog[r]) :
              wlog[r][k] = <<"interact", n>> /\ ParticleAt(wlog[r], k) = i}

\* C15 as stated: in a serial walk over a tree of in-domain particles with
\* distinct positions, interact on a leaf adds nothing to the acceleration
\* of the current particle i exactly when the leaf holds i; a leaf that
\* holds another particle is never skipped.
C15_SkipOnlyOwnLeaf ==
    \A r \in Ranks :
        (parallel = 0 /\ ctl[r] = "walked" /\ DistinctPositions(r) /\ InDomain(r)) =>
            \A i \in RealIn(pc[r]) : \A n \in InteractedLeaves(r, i) :
                LET a == pc[r][i + 1].a
                    added == \E m \in 1..Len(a) : a[m] = Contribution(r, n)
                    own == HoldsParticle(At(nodes[r], n)) /\ At(nodes[r], n).pid = i
                IN  added <=> ~own

\* ------------------------------------------------------------ skip branch
\* TRUE iff rank r has returned from _update_moments of a parallel build
MomentsDone(r) == parallel = 1 /\ ctl[r] \notin {"init", "insert", "overflow"}

\* the leaves at or beneath node n of rank r
LeavesBelow(r, n) ==
    {l \in Used(nodes[r]) : IsLeaf(At(nodes[r], l)) /\ Below(nodes[r], n, l)}

\* C16: after a parallel build a non-leaf node has SKIP_BRANCH iff every
\* leaf below it is TOP_TREE_LEAF_REMOTE, and no node with SKIP_BRANCH has a
\* leaf with a local particle at or beneath it.
C16_SkipBranch ==
    \A r \in Ranks : MomentsDone(r) =>
        \A n \in Used(nodes[r]) :
            LET node == At(nodes[r], n)
            IN  /\ ~IsLeaf(node) =>
                      (SKIP_BRANCH \in node.flags <=>
                          \A l \in LeavesBelow(r, n) :
                              TOP_TREE_LEAF_REMOTE \in At(nodes[r], l).flags)
                /\ SKIP_BRANCH \in node.flags =>
                      \A l \in LeavesBelow(r, n) : ~HoldsParticle(At(nodes[r], l))

C16_Witness ==
    /\ size = 2
    /\ \A r \in Ranks : MomentsDone(r)
    /\ \E r \in Ranks :
          /\ ~IsLeaf(At(nodes[r], ROOT))
          /\ SKIP_BRANCH \notin At(nodes[r], ROOT).flags
          /\ \E l \in LeavesBelow(r, ROOT) : HoldsParticle(At(nodes[r], l))
          /\ \E n \in Used(nodes[r]) :
                /\ n # ROOT
                /\ ~IsLeaf(At(nodes[r], n))
                /\ SKIP_BRANCH \in At(nodes[r], n).flags

\* ---------------------------------------------------------------- top tree
\* the top tree as _build_top_tree of rank r leaves it, before any particle
\* is inserted
TopTreeOf(r) ==
    build_top_tree(create_root(PoolNew(PoolCapacity), domain), load_bal, r, size).nodes

\* what the ranks must agree on at a TOP_TREE node
TopPart(node) ==
    [center |-> node.center, width |-> node.width,
     top_tree |-> TOP_TREE \in node.flags,
     top_tree_leaf |-> TOP_TREE_LEAF \in node.flags]

\* TRUE iff rank r has returned from _build_top_tree
TopBuilt(r) == parallel = 1 /\ ctl[r] # "init"

\* the locally owned top-tree leaves of rank r
OwnedTopLeaves(r) ==
    {n \in Used(nodes[r]) :
        /\ TOP_TREE_LEAF \in At(nodes[r], n).flags
        /\ TOP_TREE_LEAF_REMOTE \notin At(nodes[r], n).flags}

\* C17: in a parallel build every TOP_TREE node is at the same pool index on
\* every rank with the same center, width and TOP_TREE / TOP_TREE_LEAF
\* bits, whatever particles the ranks hold; the insertion of particles makes
\* nodes only strictly below a locally owned top-tree leaf and leaves
\* center, width and top-tree bits of the TOP_TREE nodes as they were.
C17_TopTreeIdentical ==
    \A r \in Ranks : TopBuilt(r) =>
        LET top == TopTreeOf(r)
            pool == nodes[r]
        IN  /\ top.used <= pool.used
            /\ \A n \in Used(top) :
                  /\ TOP_TREE \in At(pool, n).flags
                  /\ TopPart(At(pool, n)) = TopPart(At(top, n))
                  /\ \A q \in Ranks : TopBuilt(q) =>
                        /\ n \in Used(nodes[q])
                        /\ TopPart(At(nodes[q], n)) = TopPart(At(pool, n))
            /\ \A n \in Used(pool) \ Used(top) :
                  /\ TOP_TREE \notin At(pool, n).flags
                  /\ \E t \in OwnedTopLeaves(r) : t # n /\ Below(pool, t, n)

C17_Witness ==
    /\ size = 2
    /\ \A r \in Ranks : ctl[r] = "built"
    /\ Cardinality(RealIn(pc[0])) = 2
    /\ nodes[1].used = load_number_nodes(load_bal)
    /\ nodes[0].used > nodes[1].used
    /\ load_number_nodes(load_bal) > number_nodes + 1

\* ------------------------------------------------------- the round loop
\* the routines the round loop names: for the walk before the exchange and
\* for the walk of the received particles.  What the two walks do is taken
\* from their comments (RoundExport, RoundImport); these are the names.
first_walk == "_import_walk"
second_walk == "_remote_walk"

\* the walks rank r has called in the round it is in, in order
RoundCalls(r) ==
    IF ctl[r] \in {"exchange", "import"} THEN <<first_walk>>
    ELSE IF ctl[r] = "return" THEN <<first_walk, second_walk>>
    ELSE <<>>

\* C18: in every round of the parallel walk the walk a rank calls first, over
\* its local particles and before the particles go out, is the export walk,
\* and the walk it calls after the outgoing exchange, over the received
\* particles, is the import walk.
C18_RoundPhases ==
    \A r \in Ranks : parallel = 1 =>
        \A k \in 1..Len(RoundCalls(r)) :
            RoundCalls(r)[k] = <<"_export_walk", "_import_walk">>[k]

\* -------------------------------------------------- returned accelerations
\* what the import walk of rank q gives back for a copy of the particle at x
ImportedFrom(q, x) ==
    accumulate(import_traverse(nodes[q], x, open_angle, ROOT), 1, q, nodes[q], x)

\* the accelerations that come back to rank r for its particle p: one for
\* every pair of p in the buffers, in buffer order from pair i on
RECURSIVE ReturnedFor(_, _, _)
ReturnedFor(r, p, i) ==
    IF i > Len(buffer_id[r]) THEN <<>>
    ELSE (IF buffer_id[r][i] = p
          THEN ImportedFrom(buffer_pid[r][i], pc[r][p + 1].x) ELSE <<>>)
             \o ReturnedFor(r, p, i + 1)

\* TRUE of the step that ends a round: the exchange back, the insert and the
\* Allreduce
RoundEnds ==
    /\ parallel = 1
    /\ \A r \in Ranks : ctl[r] = "return"
    /\ \E r \in Ranks : ctl'[r] # "return"

UnboundedWalk(r, p) ==
    export_traverse(nodes[r], pc[r][p + 1].x, open_angle, -1, 0, p, ROOT)

\* what the import walks return for the exports of such a walk, by
\* destination rank from q on and, for one destination, in export order
RECURSIVE UnboundedReturns(_, _, _)
UnboundedReturns(r, p, q) ==
    IF q >= size THEN <<>>
    ELSE LET dest == destinations(UnboundedWalk(r, p), nodes[r], remote_nodes[r])
             RECURSIVE To(_)
             To(k) == IF k > Len(dest) THEN <<>>
                      ELSE (IF dest[k] = q THEN ImportedFrom(q, pc[r][p + 1].x)
                            ELSE <<>>) \o To(k + 1)
         IN  To(1) \o UnboundedReturns(r, p, q + 1)

\* the acceleration of particle p of rank r after a parallel walk whose
\* max_export no walk reaches
UnboundedAcceleration(r, p) ==
    accumulate(UnboundedWalk(r, p), 1, r, nodes[r], pc[r][p + 1].x)
        \o UnboundedReturns(r, p, 0)

\* TRUE iff rank r stands between two rounds or after the last, with no
\* particle left for its export walk to take up
Settled(r) ==
    /\ parallel = 1
    /\ ctl[r] \in {"export", "walked"}
    /\ done[r].rounds >= 1
    /\ process_particle(interaction[r], pc[r]).ret = 0

\* C20: on two ranks the parallel walk with max_export = 1 leaves every
\* particle, once its rank has no particle left to walk, with the sequence
\* of contributions that a walk with a max_export no walk reaches gives it.
C20_SameAsUnbounded ==
    (size = 2 /\ max_export = 1) =>
        \A r \in Ranks : Settled(r) =>
            \A p \in RealIn(pc[r]) : pc[r][p + 1].a = UnboundedAcceleration(r, p)

\* ------------------------------------------------- serial and parallel
\* the insertion loop of a serial _build_tree over cont, from particle i on
RECURSIVE serial_insert(_, _, _)
serial_insert(pool, cont, i) ==
    IF i >= Len(cont) THEN [nodes |-> pool, ok |-> TRUE]
    ELSE IF cont[i + 1].tag # Real THEN serial_insert(pool, cont, i + 1)
    ELSE LET res == insert_particle(pool, cont, i, ROOT)
         IN  IF res.ok THEN serial_insert(res.nodes, cont, i + 1) ELSE res

\* the tree of the serial _build_tree over cont
SerialTree(cont) ==
    update_moments(
        serial_insert(create_root(PoolNew(PoolCapacity), domain), cont, 0).nodes,
        cont, ROOT, ROOT_SIBLING)

\* the acceleration the serial walk over that tree leaves particle p with
SerialAcceleration(cont, p) ==
    LET tree == SerialTree(cont)
        x == cont[p + 1].x
    IN  accumulate(serial_traverse(tree, x, open_angle, ROOT), 1, 0, tree, x)

\* the (mass, com) pairs that the contributions a took from the nodes of pool
MomentsOf(pool, a) ==
    [k \in 1..Len(a) |->
        [mass |-> At(pool, a[k].node).mass, com |-> At(pool, a[k].node).com]]

\* C21 as stated: on one rank the parallel build and walk leave every Real
\* particle with the same sequence of (mass, com) contributions as the serial
\* build and walk over the same container.
C21_SameAsSerial ==
    (parallel = 1 /\ size = 1 /\ AllWalked) =>
        \A p \in RealIn(pc[0]) :
            MomentsOf(nodes[0], pc[0][p + 1].a)
                = MomentsOf(SerialTree(pc[0]), SerialAcceleration(pc[0], p))

\* ------------------------------------------------------------ create_root
\* TRUE iff rank r has returned from create_root and done nothing since
RootMade(r) == parallel = 0 /\ ctl[r] = "insert" /\ bi[r] = 0

\* C22 as stated: create_root leaves exactly one used node, the ROOT, with
\* flags = LEAF only, width = the largest domain extent, every child
\* NOT_EXIST and center[k] = (bounds[0][k] + bounds[1][k]) / 2 on every axis.
C22_RootAtMidpoint ==
    \A r \in Ranks : RootMade(r) =>
        /\ nodes[r].used = 1
        /\ LET root == At(nodes[r], ROOT)
           IN  /\ root.flags = {LEAF}
               /\ root.width = domain.max_length
               /\ \A s \in Slots : root.children[s] = NOT_EXIST
               /\ \A k \in Axes :
                     2 * root.center[k] = domain.bounds[1][k] + domain.bounds[2][k]

\* ---------------------------------------------------------- configuration
\* BarnesHut.__init__ stores the opening angle it is given and
\* GravityTree.__init__ / _initialize store the rest; the arguments below
\* include angles outside (0, 1] and a max_export of 0
AnyThetas == Thetas \cup {<<0, 1>>, <<2, 1>>}
AnyExports == {0, 1}

InitCfg ==
    /\ parallel = 0
    /\ size = 1
    /\ domain \in Domains
    /\ open_angle \in AnyThetas
    /\ max_export \in AnyExports
    /\ load_bal = NoLoadBalance
    /\ junk = 0
    /\ pc \in [0..0 -> Containers(domain)]
    /\ Fresh(1)

SpecCfg == InitCfg /\ [][Next]_vars

\* 0 < theta <= 1, max_export > 0 and dim in {2, 3}
ValidConfiguration ==
    /\ open_angle[1] > 0
    /\ open_angle[1] <= open_angle[2]
    /\ max_export > 0
    /\ Dim \in {2, 3}

\* C23 as stated: with an opening angle outside (0, 1], a max_export <= 0 or
\* a dimension other than 2 or 3 no tree is built and no walk runs.
C23_InvalidRejected ==
    ~ValidConfiguration =>
        \A r \in Ranks : ctl[r] = "init" /\ nodes[r].used = 0 /\ wlog[r] = <<>>

\* ------------------------------------------------------ allocation failure
\* resize when realloc returns NULL (73-76): the array is freed and
\* MemoryError is raised; capacity and used keep their values
resize_fails(pool) == pool

\* get(count) when the resize it calls fails. resize is declared cdef void
\* with no except clause, so whether the MemoryError leaves resize depends
\* on the Cython that builds the module: either it propagates through get
\* (propagated = TRUE), or it is reported and dropped inside resize and get
\* goes on (55-57) with the address of a slot of the freed array
get_fails(pool, count, propagated) ==
    LET failed == resize_fails(pool)
    IN  IF propagated THEN failed
        ELSE [failed EXCEPT !.used = pool.used + count,
                            !.node_array = pool.node_array \o [i \in 1..count |-> RawNode]]

\* get(count) on a pool that has to grow, and the growth fails to allocate
PoolGetFails ==
    /\ ctl[0] = "pool"
    /\ \E count \in Counts, propagated \in BOOLEAN :
          /\ nodes[0].used + count > nodes[0].capacity
          /\ nodes' = [nodes EXCEPT ![0] = get_fails(@, count, propagated)]
          /\ wlog' = [wlog EXCEPT ![0] = <<PoolCall("get", count)>>]
          /\ ctl' = [ctl EXCEPT ![0] = IF propagated THEN "raised" ELSE "freed"]
    /\ UNCHANGED <<config, exchange, pc, interaction, bi>>

NextAlloc == PoolGetStep \/ PoolResizeStep \/ PoolResetStep \/ PoolGetFails

SpecAlloc == InitPool /\ [][NextAlloc]_vars

\* TRUE iff the last call was a get whose growth failed to allocate
GrowthFailed == ctl[0] \in {"raised", "freed"} /\ wlog[0][1][1] = "get"

\* C24 as stated: after a get whose growth failed, the failure has reached
\* the caller, used is what it was before the call and no slot was handed out.
C24_FailureSurfaces ==
    GrowthFailed =>
        /\ ctl[0] = "raised"
        /\ nodes[0].used = wlog[0][1][3]
        /\ Len(nodes[0].node_array) = wlog[0][1][3]

\* ------------------------------------------------------- process_particle
\* the indices that the calls of process_particle logged in log selected
RECURSIVE Selected(_, _)
Selected(log, k) ==
    IF k > Len(log) THEN <<>>
    ELSE IF log[k][1] = "particle" THEN <<log[k][2]>> \o Selected(log, k + 1)
    ELSE Selected(log, k + 1)

\* the indices of the rows of cont that are not Ghost, in increasing order
RECURSIVE NonGhost(_, _)
NonGhost(cont, i) ==
    IF i >= Len(cont) THEN <<>>
    ELSE IF cont[i + 1].tag # Ghost THEN <<i>> \o NonGhost(cont, i + 1)
    ELSE NonGhost(cont, i + 1)

\* TRUE iff the next n calls of process_particle all return 0
RECURSIVE ReturnsFalse(_, _, _)
ReturnsFalse(it, cont, n) ==
    \/ n = 0
    \/ LET pp == process_particle(it, cont)
       IN  pp.ret = 0 /\ ReturnsFalse([it EXCEPT !.current = pp.current], cont, n - 1)

LaterCalls == MaxParticles + 1

\* C25: after initialize_particles the calls of process_particle select the
\* non-Ghost rows in increasing index order, each once and no Ghost; the
\* call that finds no non-Ghost row left returns false and so does every
\* later call; a row's acceleration is zeroed at its selection and the
\* unselected rows keep theirs.
C25_SelectsNonGhostOnce ==
    \A r \in Ranks : (parallel = 0 /\ ctl[r] \in {"walk", "walked"}) =>
        LET sel == Selected(wlog[r], 1)
            all == NonGhost(pc[r], 0)
        IN  /\ Len(sel) <= Len(all)
            /\ sel = SubSeq(all, 1, Len(sel))
            /\ interaction[r].current >= (IF sel = <<>> THEN -1 ELSE sel[Len(sel)])
            /\ \A p \in Indices(pc[r]) :
                  IF p \in SeqRange(sel) THEN Stale \notin SeqRange(pc[r][p + 1].a)
                  ELSE pc[r][p + 1].a = <<Stale>>
            /\ ctl[r] = "walked" =>
                  /\ sel = all
                  /\ ReturnsFalse(interaction[r], pc[r], LaterCalls)

\* a walk over a container that ends in a Ghost row has returned false
C25_Witness ==
    /\ parallel = 0
    /\ ctl[0] = "walked"
    /\ Len(pc[0]) = 2
    /\ pc[0][1].tag = Real
    /\ pc[0][2].tag = Ghost
    /\ Selected(wlog[0], 1) = <<0>>

\* ----------------------------------------------------- the sort of a round
\* the index in log of the last call of the export walk
LastCallAt(log) == CHOOSE k \in 1..Len(log) :
    log[k][1] = "call" /\ \A m \in (k + 1)..Len(log) : log[m][1] # "call"

\* the (id, destination) pairs that the export walk of rank r appended in
\* its last call, in the order of the appends (898-899)
RECURSIVE RoundPairs(_, _)
RoundPairs(r, k) ==
    IF k > Len(wlog[r]) THEN <<>>
    ELSE IF wlog[r][k][1] = "export"
         THEN <<<<ParticleAt(wlog[r], k),
                  remote_nodes[r][At(nodes[r], wlog[r][k][2]).index + 1].proc>>>>
                  \o RoundPairs(r, k + 1)
         ELSE RoundPairs(r, k + 1)

\* the pairs of q with destination d, in the order of q
PairsTo(q, d) == SelectSeq(q, LAMBDA e : e[2] = d)

\* the buffers of rank r as pairs
BufferPairs(r) ==
    <<>> \o [i \in 1..Len(buffer_pid[r]) |-> <<buffer_id[r][i], buffer_pid[r][i]>>]

\* TRUE iff the buffers of rank r hold the pairs of its last export walk,
\* by destination, each destination's pairs in recorded order at
\* send_disp[d] .. send_disp[d] + send_cnts[d] - 1
SortedRound(r) ==
    LET rec == RoundPairs(r, LastCallAt(wlog[r]))
        got == BufferPairs(r)
    IN  /\ Len(buffer_id[r]) = Len(buffer_pid[r])
        /\ Len(got) = Len(rec)
        /\ \A i \in 1..(Len(got) - 1) : got[i][2] <= got[i + 1][2]
        /\ \A d \in Ranks :
              /\ counts[r].send_cnts[d] = Len(PairsTo(rec, d))
              /\ counts[r].send_disp[d] + counts[r].send_cnts[d] <= Len(got)
              /\ SubSeq(got, counts[r].send_disp[d] + 1,
                        counts[r].send_disp[d] + counts[r].send_cnts[d]) = PairsTo(rec, d)

\* C26 as stated: after the sort (and the displacements) of a round the
\* buffers hold exactly the pairs that the export walk of that round
\* recorded, by non-decreasing destination, rank d's pairs at
\* send_disp[d] .. send_disp[d] + send_cnts[d] - 1 in recorded order.
C26_SortedPairs ==
    \A r \in Ranks : (parallel = 1 /\ ctl[r] = "import") => SortedRound(r)

\* ------------------------------------------------- first child and sibling
\* TRUE iff _update_moments has run over the tree of rank r
Threaded(r) == MomentsDone(r) \/ (parallel = 0 /\ Built(r))

\* C27: after update_moments the next_sibling of a child is the next
\* populated child of its parent in slot order, or the parent's own
\* next_sibling if it is the last; first_child of a non-leaf is its
\* populated child of smallest slot, first_child of a LEAF is NOT_EXIST and
\* next_sibling of ROOT is ROOT_SIBLING.
C27_SiblingThread ==
    \A r \in Ranks : Threaded(r) =>
        /\ At(nodes[r], ROOT).next_sibling = ROOT_SIBLING
        /\ \A p \in Used(nodes[r]) :
              LET node == At(nodes[r], p)
                  pop == Populated(node)
              IN  IF IsLeaf(node) THEN node.first_child = NOT_EXIST
                  ELSE /\ pop # {}
                       /\ \E s \in pop :
                             /\ \A t \in pop : s <= t
                             /\ node.first_child = node.children[s]
                       /\ \A s \in pop :
                             LET later == {t \in pop : t > s}
                                 sib == At(nodes[r], node.children[s]).next_sibling
                             IN  IF later = {} THEN sib = node.next_sibling
                                 ELSE \E t \in later :
                                         /\ \A u \in later : t <= u
                                         /\ sib = node.children[t]

\* a last child that inherits a sibling other than ROOT_SIBLING from its
\* parent, and a child whose next populated slot is not the next slot
C27_Witness ==
    \E r \in Ranks :
        /\ Threaded(r)
        /\ \E p \in Used(nodes[r]) \ {ROOT} :
              LET node == At(nodes[r], p)
              IN  /\ ~IsLeaf(node)
                  /\ node.next_sibling # ROOT_SIBLING
                  /\ \E s \in Populated(node) :
                        /\ \A t \in Populated(node) : t <= s
                        /\ At(nodes[r], node.children[s]).next_sibling = node.next_sibling
                  /\ \E s, t \in Populated(node) :
                        /\ t > s + 1
                        /\ \A u \in (s + 1)..(t - 1) : u \notin Populated(node)

\* ------------------------------------------------ the tree under insertion
\* TRUE iff rank r is between two insertions of _build_tree, or after the
\* last one and before _update_moments
Inserting(r) == ctl[r] = "insert"

\* C28: after the insertion of each particle, and at the start of
\* update_moments, every used non-LEAF node has a child, no LEAF node has
\* one, HAS_PARTICLE is set on LEAF nodes only, and every child index is a
\* used pool index greater than the index of its node.
C28_ShapeUnderInsertion ==
    \A r \in Ranks : Inserting(r) =>
        \A n \in Used(nodes[r]) :
            LET node == At(nodes[r], n)
            IN  /\ IsLeaf(node) <=> Populated(node) = {}
                /\ HAS_PARTICLE \in node.flags => IsLeaf(node)
                /\ \A s \in Populated(node) :
                      node.children[s] \in Used(nodes[r]) /\ node.children[s] > n

\* both particles of a rank are in, the second one went into the leaf of
\* the first, below the top tree
C28_Witness ==
    \E r \in Ranks :
        /\ parallel = 1
        /\ Inserting(r)
        /\ bi[r] = 2
        /\ Cardinality(RealIn(pc[r])) = 2
        /\ nodes[r].used > load_number_nodes(load_bal) + 1
        /\ \E n \in Used(nodes[r]) \ {ROOT} :
              /\ TOP_TREE_LEAF \in At(nodes[r], n).flags
              /\ ~IsLeaf(At(nodes[r], n))

\* -------------------------------------------- a build that follows a walk
\* the counts a round of the parallel walk leaves behind (958-979): send_cnts
\* and recv_cnts hold particle counts, the displacements are their sums
WalkCounts(n) ==
    {[send_cnts |-> c, send_disp |-> [q \in 0..(n - 1) |-> displacements(c, q)],
      recv_cnts |-> d, recv_disp |-> [q \in 0..(n - 1) |-> displacements(d, q)]] :
        c \in [0..(n - 1) -> 0..1], d \in [0..(n - 1) -> 0..1]}

\* the state before a build: the counts are zero (first build) or those of
\* the last round of the walk before it, the same on every rank
InitRebuild ==
    /\ parallel = 1
    /\ size \in Sizes
    /\ domain = DomainAt(0)
    /\ open_angle = <<1, 1>>
    /\ max_export = 1
    /\ load_bal \in LoadBalances(size)
    /\ junk = 0
    /\ \E all \in UNION {[1..n -> ParParticles(domain)] : n \in 0..MaxParticles} :
           pc = [r \in 0..(size - 1) |-> Distribute(all, load_bal, r)]
    /\ \E w \in WalkCounts(size) : counts = [r \in 0..(size - 1) |-> w]
    /\ nodes = [r \in 0..(size - 1) |-> PoolNew(PoolCapacity)]
    /\ remote_nodes = [r \in 0..(size - 1) |-> <<>>]
    /\ interaction = [r \in 0..(size - 1) |->
           [current |-> -1, num_particles |-> 0, start |-> ROOT]]
    /\ buffer_id = [r \in 0..(size - 1) |-> <<>>]
    /\ buffer_pid = [r \in 0..(size - 1) |-> <<>>]
    /\ buffer_export = [r \in 0..(size - 1) |-> <<>>]
    /\ buffer_import = [r \in 0..(size - 1) |-> <<>>]
    /\ done = [r \in 0..(size - 1) |-> [loc_done |-> 0, glb_done |-> 0, rounds |-> 0]]
    /\ ctl = [r \in 0..(size - 1) |-> "init"]
    /\ bi = [r \in 0..(size - 1) |-> 0]
    /\ wlog = [r \in 0..(size - 1) |-> <<>>]

\* _build_tree of every rank, up to the end of _export_import_remote_nodes
NextRebuild ==
    \/ \E r \in Ranks :
        \/ BuildTopTree(r)
        \/ BuildInsert(r)
        \/ BuildMomentsPar(r)
    \/ GatherMoments

SpecRebuild == InitRebuild /\ [][NextRebuild]_vars

\* the rows of the Remote-Node Table of rank r that belong to rank q
RowsOf(r, q) == {i \in 1..Len(remote_nodes[r]) : remote_nodes[r][i].proc = q}

\* TRUE iff the owning ranks of the top-tree leaves do not decrease
OwnersInOrder ==
    \A a \in 1..(Len(load_bal.leaf_pid) - 1) : load_bal.leaf_pid[a] <= load_bal.leaf_pid[a + 1]

\* C29: with the owners of the top-tree leaves in non-decreasing order, at
\* the all-gather of a build (a first one or one that follows a walk)
\* send_cnts[q] is the number of rows of rank q, send_disp[q] the index of
\* the first of them, rank q's rows are send_disp[q] ..
\* send_disp[q] + send_cnts[q] - 1, and the counts add up to the number of
\* top-tree leaves.
C29_CountsAtGather ==
    \A r \in Ranks : (parallel = 1 /\ ctl[r] = "gather" /\ OwnersInOrder) =>
        LET cnt == counts[r]
        IN  /\ Len(remote_nodes[r]) = load_number_leaves(load_bal)
            /\ \A q \in Ranks :
                  /\ cnt.send_cnts[q] = Cardinality(RowsOf(r, q))
                  /\ RowsOf(r, q) =
                        (cnt.send_disp[q] + 1)..(cnt.send_disp[q] + cnt.send_cnts[q])
            /\ displacements(cnt.send_cnts, size) = load_number_leaves(load_bal)

\* a build after a walk that left counts behind, both ranks own leaves
C29_Witness ==
    /\ size = 2
    /\ \A r \in Ranks : ctl[r] = "gather"
    /\ counts[0].recv_cnts[1] = 1
    /\ counts[0].recv_cnts[0] = 1
    /\ counts[0].send_cnts[0] > 1
    /\ counts[0].send_cnts[1] > 1
    /\ counts[0].send_disp[1] > 1

\* ------------------------------------------------ node pointers of a build
\* The build is replayed with the Node* variables of the code made visible.
\* An event is <<"realloc", "", 0>> when resize moves the array,
\* <<"resolve", v, f>> when the pointer variable v of frame f is set from
\* &node_array[index] (or from the return of get), and <<"use", v, f>> when
\* the code reads or writes through it. The frame of _create_top_tree is
\* the node_index of the call; the other functions do not recurse.
Realloc == <<"realloc", "", 0>>
Resolve(v, f) == <<"resolve", v, f>>
Use(v, f) == <<"use", v, f>>

\* get(count): resize(2 * capacity) moves the array iff it grows it
get_ptr(pool, count) ==
    IF pool.used + count > pool.capacity /\ 2 * pool.capacity > pool.capacity
    THEN <<Realloc>> ELSE <<>>

\* create_root (519-532)
create_root_ptr(pool) ==
    get_ptr(PoolReset(pool), 1) \o <<Resolve("root", 0), Use("root", 0)>>

\* create_child (339-363) called on pool
create_child_ptr(pool) ==
    get_ptr(pool, 1)
        \o <<Resolve("child", 0), Resolve("parent", 0), Use("parent", 0),
             Use("child", 0), Use("parent", 0), Use("child", 0)>>

\* create_children (375-403) called on pool
create_children_ptr(pool) ==
    LET RECURSIVE Each(_)
        Each(i) == IF i >= number_nodes THEN <<>>
                   ELSE <<Use("parent", 0), Resolve("child", 0), Use("child", 0),
                          Use("parent", 0), Use("child", 0)>> \o Each(i + 1)
    IN  get_ptr(pool, number_nodes)
            \o <<Resolve("child", 0), Resolve("parent", 0), Use("parent", 0)>>
            \o Each(0)

\* _create_top_tree (474-497) on st = [nodes, maps], as create_top_tree
RECURSIVE create_top_tree_ptr(_, _, _, _), top_tree_children_ptr(_, _, _, _, _)
top_tree_children_ptr(st, lb, node_index, load_index, i) ==
    IF i >= number_nodes THEN <<>>
    ELSE LET lp == LoadAt(lb, load_index)
             index == lp.zorder_to_hilbert[i]
             child == At(st.nodes, node_index).children[i]
             below == load_index + lp.children_start + index
         IN  <<Use("top", node_index)>>
                 \o create_top_tree_ptr(st, lb, child, below)
                 \o top_tree_children_ptr(create_top_tree(st, lb, child, below),
                        lb, node_index, load_index, i + 1)

create_top_tree_ptr(st, lb, node_index, load_index) ==
    LET lp == LoadAt(lb, load_index)
        labelled == SetAt(st.nodes, node_index,
            [At(st.nodes, node_index) EXCEPT !.flags = @ \cup {TOP_TREE}])
    IN  <<Resolve("top", node_index), Use("top", node_index)>>
            \o (IF LoadIsLeaf(lp) THEN <<Use("top", node_index)>>
                ELSE create_children_ptr(labelled)
                         \o <<Resolve("top", node_index)>>
                         \o top_tree_children_ptr(
                                [st EXCEPT !.nodes = create_children(labelled, node_index)],
                                lb, node_index, load_index, 0))

\* _build_top_tree (423-446) on the pool that create_root left
build_top_tree_ptr(pool, lb, rank) ==
    LET nleaves == load_number_leaves(lb)
        sized == reserve_top_tree(pool, lb)
        RECURSIVE Flag(_)
        Flag(a) == IF a > nleaves THEN <<>>
                   ELSE (IF lb.leaf_pid[a] # rank
                         THEN <<Resolve("node", 0), Use("node", 0)>> ELSE <<>>)
                            \o Flag(a + 1)
    IN  (IF sized.capacity # pool.capacity THEN <<Realloc>> ELSE <<>>)
            \o create_top_tree_ptr(
                   [nodes |-> sized, maps |-> [a \in 0..(nleaves - 1) |-> NOT_EXIST]],
                   lb, ROOT, 0)
            \o Flag(1)

\* the while True loop of _build_tree (574-619) for particle i, as
\* insert_particle
RECURSIVE insert_particle_ptr(_, _, _, _)
insert_particle_ptr(pool, cont, i, current) ==
    LET node == At(pool, current)
        xi == cont[i + 1].x
        head == <<Resolve("node", 0), Use("node", 0)>>
    IN  IF LEAF \in node.flags
        THEN IF HAS_PARTICLE \in node.flags
             THEN IF ~CanSplit(node) THEN head
                  ELSE LET j == node.pid
                           xj == cont[j + 1].x
                           cleared == SetAt(pool, current,
                               [node EXCEPT !.children = NoChildren,
                                            !.flags = @ \ {LEAF, HAS_PARTICLE}])
                           index == get_index(cleared, current, xj)
                           made == create_child(cleared, current, index)
                           stored == store_particle(made, made.used - 1, j)
                       IN  head \o <<Use("node", 0), Resolve("index", 0), Use("index", 0)>>
                               \o create_child_ptr(cleared)
                               \o <<Use("child", 0)>>
                               \o insert_particle_ptr(stored, cont, i, current)
             ELSE head \o <<Use("node", 0)>>
        ELSE LET index == get_index(pool, current, xi)
                 first == head \o <<Resolve("index", 0), Use("index", 0), Use("node", 0)>>
             IN  IF node.children[index] = NOT_EXIST
                 THEN IF ~CanSplit(node) THEN first
                      ELSE first \o create_child_ptr(pool) \o <<Use("child", 0)>>
                 ELSE first \o <<Use("node", 0)>>
                          \o insert_particle_ptr(pool, cont, i, node.children[index])

\* pools small enough for the build to outgrow them
PtrCapacities == {1, 2, 4}

InitPtr ==
    /\ domain = DomainAt(0)
    /\ \/ /\ parallel = 0
          /\ size = 1
          /\ load_bal = NoLoadBalance
          /\ pc \in [0..0 -> Containers(domain)]
       \/ /\ parallel = 1
          /\ size \in Sizes
          /\ load_bal \in LoadBalances(size)
          /\ \E all \in UNION {[1..n -> ParParticles(domain)] : n \in 0..MaxParticles} :
                 pc = [r \in 0..(size - 1) |-> Distribute(all, load_bal, r)]
    /\ open_angle = <<1, 1>>
    /\ max_export = 1
    /\ junk = 0
    /\ \E c \in PtrCapacities : nodes = [r \in 0..(size - 1) |-> PoolNew(c)]
    /\ remote_nodes = [r \in 0..(size - 1) |-> <<>>]
    /\ counts = [r \in 0..(size - 1) |-> NoCounts(size)]
    /\ interaction = [r \in 0..(size - 1) |->
           [current |-> -1, num_particles |-> 0, start |-> ROOT]]
    /\ buffer_id = [r \in 0..(size - 1) |-> <<>>]
    /\ buffer_pid = [r \in 0..(size - 1) |-> <<>>]
    /\ buffer_export = [r \in 0..(size - 1) |-> <<>>]
    /\ buffer_import = [r \in 0..(size - 1) |-> <<>>]
    /\ done = [r \in 0..(size - 1) |-> [loc_done |-> 0, glb_done |-> 0, rounds |-> 0]]
    /\ ctl = [r \in 0..(size - 1) |-> "init"]
    /\ bi = [r \in 0..(size - 1) |-> 0]
    /\ wlog = [r \in 0..(size - 1) |-> <<>>]

\* create_root of a serial build, with its pointer events
PtrBuildRoot(r) ==
    /\ ctl[r] = "init"
    /\ parallel = 0
    /\ nodes' = [nodes EXCEPT ![r] = create_root(@, domain)]
    /\ wlog' = [wlog EXCEPT ![r] = create_root_ptr(nodes[r])]
    /\ ctl' = [ctl EXCEPT ![r] = "insert"]
    /\ bi' = [bi EXCEPT ![r] = 0]
    /\ UNCHANGED <<config, exchange, pc, interaction>>

\* create_root and _build_top_tree of a parallel build, with their pointer
\* events
PtrBuildTopTree(r) ==
    /\ ctl[r] = "init"
    /\ parallel = 1
    /\ LET root == create_root(nodes[r], domain)
           top == build_top_tree(root, load_bal, r, size)
       IN  /\ nodes' = [nodes EXCEPT ![r] = top.nodes]
           /\ remote_nodes' = [remote_nodes EXCEPT ![r] = top.remote_nodes]
           /\ counts' = [counts EXCEPT ![r].send_cnts = top.send_cnts,
                                       ![r].send_disp = top.send_disp]
           /\ wlog' = [wlog EXCEPT ![r] =
                  create_root_ptr(nodes[r]) \o build_top_tree_ptr(root, load_bal, r)]
    /\ ctl' = [ctl EXCEPT ![r] = "insert"]
    /\ bi' = [bi EXCEPT ![r] = 0]
    /\ UNCHANGED <<config, buffer_id, buffer_pid, buffer_export, buffer_import,
                   done, pc, interaction>>

\* one iteration of the loop over the particles, with its pointer events
PtrBuildInsert(r) ==
    /\ ctl[r] = "insert"
    /\ bi[r] < Len(pc[r])
    /\ LET i == bi[r]
           real == pc[r][i + 1].tag = Real
           res == IF real
                  THEN insert_particle(nodes[r], pc[r], i, start_node(r, i))
                  ELSE [nodes |-> nodes[r], ok |-> TRUE]
       IN  /\ nodes' = [nodes EXCEPT ![r] = res.nodes]
           /\ wlog' = [wlog EXCEPT ![r] = @ \o
                  (IF real THEN insert_particle_ptr(nodes[r], pc[r], i, start_node(r, i))
                   ELSE <<>>)]
           /\ ctl' = [ctl EXCEPT ![r] = IF res.ok THEN "insert" ELSE "overflow"]
           /\ bi' = [bi EXCEPT ![r] = i + 1]
    /\ UNCHANGED <<config, exchange, pc, interaction>>

NextPtr ==
    \E r \in Ranks :
        \/ PtrBuildRoot(r)
        \/ PtrBuildTopTree(r)
        \/ PtrBuildInsert(r)

SpecPtr == InitPtr /\ [][NextPtr]_vars

\* TRUE iff the use at position k of log is through a pointer that was
\* resolved after the last realloc before k
Fresh_at(log, k) ==
    \E j \in 1..(k - 1) :
        /\ log[j] = Resolve(log[k][2], log[k][3])
        /\ \A m \in (j + 1)..(k - 1) : log[m] # Realloc

\* C30: during the build (root creation, top-tree replication with its
\* recursion, insertion) every node pointer that is read or written through
\* was resolved from its pool index after the most recent growth of the
\* pool; the parent pointer that _create_top_tree holds across its recursive
\* calls is among them.
C30_PointersFresh ==
    \A r \in Ranks :
        \A k \in 1..Len(wlog[r]) : wlog[r][k][1] = "use" => Fresh_at(wlog[r], k)

\* the pool has grown in the top-tree step and again in an insertion, and
\* _create_top_tree has used its parent pointer after a recursive call that
\* created children
C30_Witness ==
    \E r \in Ranks :
        /\ parallel = 1
        /\ ctl[r] = "insert"
        /\ bi[r] = Len(pc[r])
        /\ Len(SelectSeq(wlog[r], LAMBDA e : e = Realloc)) >= 2
        /\ \E j, k \in 1..Len(wlog[r]) :
              /\ j < k
              /\ wlog[r][j] = Resolve("top", number_nodes + 1)
              /\ wlog[r][k] = Use("top", ROOT)
        /\ wlog[r][Len(wlog[r])] = Use("child", 0)

\* ------------------------------------------------- steps of the import walk
\* the events of the import walk that rank r made for row k of its import
\* buffer
ImportEvents(r, k) ==
    import_traverse(nodes[r], buffer_import[r][k].x, open_angle, ROOT)

\* TRUE iff after the visit at position k of t the walk is at index next
\* without a call of interact in between
MovesTo(t, k, next) ==
    IF next = ROOT_SIBLING THEN k = Len(t)
    ELSE k < Len(t) /\ t[k + 1] = <<"visit", next>>

\* the kinds of node of the claim
RemoteLeaf(node) == LEAF \in node.flags /\ TOP_TREE_LEAF_REMOTE \in node.flags
TopInner(node) == LEAF \notin node.flags /\ TOP_TREE \in node.flags
SkipMarked(node) == SKIP_BRANCH \in node.flags

\* TRUE iff rank r has walked the rows of its import buffer
Imported(r) == parallel = 1 /\ ctl[r] = "return"

\* C31 as stated: at a TOP_TREE_LEAF_REMOTE node, at a TOP_TREE non-leaf
\* node and at a node with SKIP_BRANCH the import walk steps to next_sibling
\* without calling interact.
C31_StepsOver ==
    \A r \in Ranks : Imported(r) =>
        \A k \in 1..Len(buffer_import[r]) :
            LET t == ImportEvents(r, k)
            IN  \A i \in 1..Len(t) :
                    LET node == At(nodes[r], t[i][2])
                    IN  (t[i][1] = "visit"
                           /\ (RemoteLeaf(node) \/ TopInner(node) \/ SkipMarked(node)))
                        => MovesTo(t, i, node.next_sibling)

\* C31 amended: at a TOP_TREE_LEAF_REMOTE node and at a node with
\* SKIP_BRANCH the import walk steps to next_sibling without calling
\* interact; at a TOP_TREE non-leaf node without SKIP_BRANCH it never calls
\* interact, it goes down to first_child if the splitter opens the node and
\* steps to next_sibling if not. No contribution of an imported row comes
\* from a node of these kinds.
C31_StepsOverOrDown ==
    \A r \in Ranks : Imported(r) =>
        \A k \in 1..Len(buffer_import[r]) :
            LET t == ImportEvents(r, k)
                x == buffer_import[r][k].x
            IN  /\ \A i \in 1..Len(t) :
                      LET node == At(nodes[r], t[i][2])
                      IN  t[i][1] = "visit" =>
                            /\ (RemoteLeaf(node) \/ SkipMarked(node))
                                  => MovesTo(t, i, node.next_sibling)
                            /\ (TopInner(node) /\ ~SkipMarked(node))
                                  => MovesTo(t, i,
                                         IF split(node, x, open_angle)
                                         THEN node.first_child ELSE node.next_sibling)
                /\ \A c \in SeqRange(buffer_import[r][k].a) :
                      /\ c.rank = r
                      /\ LET node == At(nodes[r], c.node)
                         IN  ~(RemoteLeaf(node) \/ TopInner(node) \/ SkipMarked(node))

\* an imported row whose walk went down through an opened TOP_TREE non-leaf,
\* passed a remote leaf and took a contribution from a local leaf
C31_Witness ==
    \E r \in Ranks :
        /\ Imported(r)
        /\ \E k \in 1..Len(buffer_import[r]) :
              LET t == ImportEvents(r, k)
              IN  /\ buffer_import[r][k].a # <<>>
                  /\ \E i \in 1..(Len(t) - 1) :
                        /\ t[i][1] = "visit"
                        /\ TopInner(At(nodes[r], t[i][2]))
                        /\ t[i + 1] = <<"visit", At(nodes[r], t[i][2]).first_child>>
                  /\ \E i \in 1..Len(t) :
                        t[i][1] = "visit" /\ RemoteLeaf(At(nodes[r], t[i][2]))

\* ------------------------------------------------- steps of the export walk
\* the rank that owns top-tree leaf n, by the Remote-Node Table of rank r
OwnerOf(r, n) ==
    remote_nodes[r][CHOOSE a \in 1..Len(remote_nodes[r]) : remote_nodes[r][a].map = n].proc

\* the positions of the export events of rank r for particle p at leaves of
\* rank q
ExportsTo(r, p, q) ==
    {k \in 1..Len(wlog[r]) :
        /\ wlog[r][k][1] = "export"
        /\ ParticleAt(wlog[r], k) = p
        /\ OwnerOf(r, wlog[r][k][2]) = q}

\* TRUE iff every visit of the export walk of rank r at a remote leaf is
\* followed by the export (split) or by interact (no split), and after an
\* export the walk is at next_sibling, in this call or saved for the next
ExportSteps(r) ==
    LET log == wlog[r]
    IN  \A k \in 1..(Len(log) - 1) :
            LET node == At(nodes[r], log[k][2])
                x == pc[r][ParticleAt(log, k) + 1].x
            IN  /\ (log[k][1] = "visit" /\ RemoteLeaf(node)) =>
                      log[k + 1] = <<(IF split(node, x, open_angle)
                                      THEN "export" ELSE "interact"), log[k][2]>>
                /\ log[k][1] = "export" =>
                      /\ RemoteLeaf(node)
                      /\ log[k + 1] \in
                            {<<"pause", node.next_sibling>>,
                             IF node.next_sibling = -1
                             THEN <<"end", ParticleAt(log, k)>>
                             ELSE <<"visit", node.next_sibling>>}

\* TRUE iff the buffers of rank r hold one pair (p, q) for every export
\* event of p at a leaf of rank q, and no other pair
ExportPairs(r) ==
    \A p \in Indices(pc[r]), q \in Ranks :
        Cardinality({i \in 1..Len(buffer_pid[r]) : BufferPairs(r)[i] = <<p, q>>})
            = Cardinality(ExportsTo(r, p, q))

\* TRUE iff every destination in the buffer of rank r is another rank
ExportRanks(r) == \A i \in 1..Len(buffer_pid[r]) : buffer_pid[r][i] \in Ranks \ {r}

\* TRUE iff rank r is in the round loop of the parallel walk
InRounds(r) ==
    parallel = 1 /\ ctl[r] \in {"exchange", "import", "return"}

\* C32 as stated: at a TOP_TREE_LEAF_REMOTE leaf that the splitter opens the
\* export walk records exactly one pair (current particle, owning rank of
\* the leaf), does not call interact and steps to next_sibling; at one that
\* it does not open interact is called and nothing is recorded; every
\* recorded destination is a rank other than the local one.
C32_ExportAtRemoteLeaf ==
    \A r \in Ranks : InRounds(r) =>
        ExportSteps(r) /\ ExportPairs(r) /\ ExportRanks(r)

\* ------------------------------------------- the two forms of Node.group
\* Node.group is a union of children[] and data (first_child, next_sibling,
\* mass, com).  The accesses of a build and the walk after it are recorded
\* in wlog: <<"children", n>> when an entry of children[] of node n is
\* read, <<"moments", n>> when _update_moments writes the data form of n,
\* <<"data", n>> when first_child, next_sibling, mass or com of n is read
\* outside a walk; in a walk <<"visit", n>> reads them.  Each routine
\* begins with an event of its name.

\* _create_top_tree: children[i] of the parent is read for every child (496)
RECURSIVE top_tree_accesses(_, _, _, _), top_tree_accesses_from(_, _, _, _, _)
top_tree_accesses_from(pool, lb, node_index, load_index, i) ==
    IF i >= number_nodes THEN <<>>
    ELSE LET lp == LoadAt(lb, load_index)
             index == lp.zorder_to_hilbert[i]
         IN  <<<<"children", node_index>>>>
                 \o top_tree_accesses(pool, lb, At(pool, node_index).children[i],
                        load_index + lp.children_start + index)
                 \o top_tree_accesses_from(pool, lb, node_index, load_index, i + 1)

top_tree_accesses(pool, lb, node_index, load_index) ==
    IF LoadIsLeaf(LoadAt(lb, load_index)) THEN <<>>
    ELSE top_tree_accesses_from(pool, lb, node_index, load_index, 0)

\* the while True loop of _build_tree for particle i: children[index] of an
\* internal node is read at 612 and again at 619 when the walk goes down
RECURSIVE insert_accesses(_, _, _, _)
insert_accesses(pool, cont, i, current) ==
    LET node == At(pool, current)
        xi == cont[i + 1].x
    IN  IF LEAF \in node.flags
        THEN IF HAS_PARTICLE \in node.flags /\ CanSplit(node)
             THEN LET j == node.pid
                      cleared == SetAt(pool, current,
                          [node EXCEPT !.children = NoChildren,
                                       !.flags = @ \ {LEAF, HAS_PARTICLE}])
                      made == create_child(cleared, current,
                                  get_index(cleared, current, cont[j + 1].x))
                  IN  insert_accesses(store_particle(made, made.used - 1, j),
                          cont, i, current)
             ELSE <<>>
        ELSE LET index == get_index(pool, current, xi)
             IN  <<<<"children", current>>>>
                     \o (IF node.children[index] = NOT_EXIST THEN <<>>
                         ELSE <<<<"children", current>>>>
                                  \o insert_accesses(pool, cont, i, node.children[index]))

RECURSIVE moments_accesses_early(_, _), moments_accesses(_, _),
          moments_children_accesses(_, _, _)

\* the loop over the slots of node current from slot i on: the test of
\* children[i] (654); for a child the search of its sibling and the call
\* (657-667), the call itself, the fetch of the child (668) and the read of
\* its mass and com (673-676)
moments_children_accesses(pool, current, i) ==
    IF i >= number_nodes THEN <<>>
    ELSE LET child == At(pool, current).children[i]
         IN  <<<<"children", current>>>>
                 \o (IF child = NOT_EXIST THEN <<>>
                     ELSE <<<<"children", current>>>>
                              \o moments_accesses(pool, child)
                              \o <<<<"children", current>>, <<"data", child>>>>)
                 \o moments_children_accesses(pool, current, i + 1)

\* mutant of moments_accesses: the data form of a node is written before
\* the loop over its children
moments_accesses_early(pool, current) ==
    IF LEAF \notin At(pool, current).flags
    THEN <<<<"children", current>>, <<"moments", current>>>>
             \o moments_children_accesses(pool, current, 0)
    ELSE <<<<"moments", current>>>>

\* _update_moments(current, .): the loop over the children, the search of
\* the first child and the read of children[j] (680-686), then the writes
\* of the data form (686-695, 698-712)
moments_accesses(pool, current) ==
    IF LEAF \notin At(pool, current).flags
    THEN moments_children_accesses(pool, current, 0)
             \o <<<<"children", current>>, <<"moments", current>>>>
    ELSE <<<<"moments", current>>>>

\* _export_import_remote_nodes before the Allgatherv: mass and com of the
\* rank's own top-tree leaves are read (774-775)
collect_accesses(rows, rank) ==
    LET own == SelectSeq(rows, LAMBDA row : row.proc = rank)
    IN  [a \in 1..Len(own) |-> <<"data", own[a].map>>]

\* _update_remote_moments(current): first_child and next_sibling of the
\* node (734-735), then for every child the call and the read of its mass,
\* com and next_sibling (741-746)
RECURSIVE remote_accesses(_, _), remote_children_accesses(_, _, _)
remote_children_accesses(pool, ind, sib) ==
    IF ind = sib THEN <<>>
    ELSE remote_accesses(pool, ind) \o <<<<"data", ind>>>>
             \o remote_children_accesses(pool, At(pool, ind).next_sibling, sib)

remote_accesses(pool, current) ==
    LET node == At(pool, current)
    IN  IF TOP_TREE_LEAF \notin node.flags
        THEN <<<<"data", current>>>>
                 \o remote_children_accesses(pool, node.first_child, node.next_sibling)
        ELSE <<>>

\* _import_walk over the container buf: the rows taken up, each with the
\* events of its inner loop
RECURSIVE import_accesses(_, _, _, _, _)
import_accesses(it, buf, pool, angle, k) ==
    IF k > Len(buf) THEN <<>>
    ELSE (IF (k - 1) \in processed(it, buf)
          THEN <<<<"import", k - 1>>>>
                   \o import_traverse(pool, buf[k].x, angle, ROOT)
          ELSE <<>>)
             \o import_accesses(it, buf, pool, angle, k + 1)

\* a serial run, or a run of two ranks
InitUnion ==
    \/ Init
    \/ /\ parallel = 1
       /\ size = 2
       /\ domain = DomainAt(0)
       /\ open_angle \in Thetas
       /\ max_export = 2
       /\ load_bal \in LoadBalances(size)
       /\ junk \in 0..(load_number_leaves(load_bal) - 1)
       /\ \E all \in UNION {[1..n -> ParParticles(domain)] : n \in 0..MaxParticles} :
              pc = [r \in 0..(size - 1) |-> Distribute(all, load_bal, r)]
       /\ Fresh(size)

UnionTopTree(r) ==
    /\ ctl[r] = "init"
    /\ parallel = 1
    /\ LET top == build_top_tree(create_root(nodes[r], domain), load_bal, r, size)
       IN  /\ nodes' = [nodes EXCEPT ![r] = top.nodes]
           /\ remote_nodes' = [remote_nodes EXCEPT ![r] = top.remote_nodes]
           /\ counts' = [counts EXCEPT ![r].send_cnts = top.send_cnts,
                                       ![r].send_disp = top.send_disp]
           /\ wlog' = [wlog EXCEPT ![r] = <<<<"top_tree", ROOT>>>>
                           \o top_tree_accesses(top.nodes, load_bal, ROOT, 0)]
    /\ ctl' = [ctl EXCEPT ![r] = "insert"]
    /\ bi' = [bi EXCEPT ![r] = 0]
    /\ UNCHANGED <<config, buffer_id, buffer_pid, buffer_export, buffer_import,
                   done, pc, interaction>>

UnionInsert(r) ==
    /\ ctl[r] = "insert"
    /\ bi[r] < Len(pc[r])
    /\ LET i == bi[r]
           from == start_node(r, i)
           res == IF pc[r][i + 1].tag = Real
                  THEN insert_particle(nodes[r], pc[r], i, from)
                  ELSE [nodes |-> nodes[r], ok |-> TRUE]
       IN  /\ nodes' = [nodes EXCEPT ![r] = res.nodes]
           /\ ctl' = [ctl EXCEPT ![r] = IF res.ok THEN "insert" ELSE "overflow"]
           /\ bi' = [bi EXCEPT ![r] = i + 1]
           /\ wlog' = [wlog EXCEPT ![r] =
                  IF pc[r][i + 1].tag = Real
                  THEN @ \o <<<<"insert", i>>>>
                         \o insert_accesses(nodes[r], pc[r], i, from)
                  ELSE @]
    /\ UNCHANGED <<config, exchange, pc, interaction>>

UnionMoments(r) ==
    /\ ctl[r] = "insert"
    /\ bi[r] = Len(pc[r])
    /\ parallel = 0
    /\ nodes' = [nodes EXCEPT ![r] = update_moments(@, pc[r], ROOT, ROOT_SIBLING)]
    /\ wlog' = [wlog EXCEPT ![r] = @ \o <<<<"update_moments", ROOT>>>>
                    \o moments_accesses(nodes[r], ROOT)]
    /\ ctl' = [ctl EXCEPT ![r] = "built"]
    /\ UNCHANGED <<config, exchange, pc, interaction, bi>>

UnionMomentsPar(r) ==
    /\ ctl[r] = "insert"
    /\ bi[r] = Len(pc[r])
    /\ parallel = 1
    /\ LET local == update_moments(nodes[r], pc[r], ROOT, ROOT_SIBLING)
       IN  /\ nodes' = [nodes EXCEPT ![r] = local]
           /\ remote_nodes' = [remote_nodes EXCEPT ![r] =
                                  collect_local_rows(local, @, r)]
    /\ wlog' = [wlog EXCEPT ![r] = @ \o <<<<"update_moments", ROOT>>>>
                    \o moments_accesses(nodes[r], ROOT)
                    \o <<<<"update_remote_moments", ROOT>>>>
                    \o collect_accesses(remote_nodes[r], r)]
    /\ ctl' = [ctl EXCEPT ![r] = "gather"]
    /\ UNCHANGED <<config, counts, buffer_id, buffer_pid, buffer_export,
                   buffer_import, done, pc, interaction, bi>>

UnionGather ==
    /\ \A r \in Ranks : ctl[r] = "gather"
    /\ LET rows == [r \in Ranks |-> allgather_rows(remote_nodes, counts[r], r, size)]
           copied == [r \in Ranks |-> copy_remote_rows(nodes[r], rows[r], r)]
       IN  /\ remote_nodes' = rows
           /\ nodes' = [r \in Ranks |-> update_remote_moments(copied[r], ROOT)]
           /\ wlog' = [r \in Ranks |-> wlog[r] \o remote_accesses(copied[r], ROOT)]
    /\ ctl' = [r \in Ranks |-> "built"]
    /\ UNCHANGED <<config, counts, buffer_id, buffer_pid, buffer_export,
                   buffer_import, done, pc, interaction, bi>>

UnionWalkBegin(r) ==
    /\ ctl[r] = "built"
    /\ parallel = 0
    /\ interaction' = [interaction EXCEPT ![r] = initialize_particles(@, pc[r])]
    /\ ctl' = [ctl EXCEPT ![r] = "walk"]
    /\ UNCHANGED <<config, exchange, pc, nodes, bi, wlog>>

UnionWalkBeginPar(r) ==
    /\ ctl[r] = "built"
    /\ parallel = 1
    /\ interaction' = [interaction EXCEPT ![r] = initialize_particles(@, pc[r])]
    /\ buffer_id' = [buffer_id EXCEPT ![r] = <<>>]
    /\ buffer_pid' = [buffer_pid EXCEPT ![r] = <<>>]
    /\ done' = [done EXCEPT ![r] = [loc_done |-> 0, glb_done |-> 0, rounds |-> 0]]
    /\ ctl' = [ctl EXCEPT ![r] = "export"]
    /\ UNCHANGED <<config, remote_nodes, counts, buffer_export, buffer_import,
                   pc, nodes, bi, wlog>>

UnionImport(r) ==
    /\ ctl[r] = "import"
    /\ LET it == initialize_particles(interaction[r], buffer_import[r])
       IN  /\ buffer_import' = [buffer_import EXCEPT ![r] =
                  import_walk(it, @, r, nodes[r], open_angle)]
           /\ wlog' = [wlog EXCEPT ![r] = @ \o
                  import_accesses(it, buffer_import[r], nodes[r], open_angle, 1)]
    /\ ctl' = [ctl EXCEPT ![r] = "return"]
    /\ UNCHANGED <<config, remote_nodes, counts, buffer_id, buffer_pid,
                   buffer_export, done, pc, nodes, interaction, bi>>

NextUnion ==
    \/ \E r \in Ranks :
        \/ BuildRoot(r)
        \/ UnionTopTree(r)
        \/ UnionInsert(r)
        \/ UnionMoments(r)
        \/ UnionMomentsPar(r)
        \/ UnionWalkBegin(r)
        \/ UnionWalkBeginPar(r)
        \/ SerialWalkStep(r)
        \/ RoundExport(r)
        \/ UnionImport(r)
    \/ UnionGather
    \/ ParticlesOut
    \/ ParticlesBack

SpecUnion == InitUnion /\ [][NextUnion]_vars

\* the routine that the access at position k of log belongs to
Routines ==
    {"top_tree", "insert", "update_moments", "update_remote_moments",
     "particle", "import"}
RoutineAt(log, k) ==
    LET before == {j \in 1..k : log[j][1] \in Routines}
    IN  IF before = {} THEN "none"
        ELSE log[CHOOSE j \in before : \A h \in before : h <= j][1]

ReadsChildren(e) == e[1] = "children"
ReadsData(e) == e[1] \in {"data", "visit"}
\* TRUE iff _update_moments wrote the data form of node n before position k
MomentsWritten(log, n, k) == \E j \in 1..(k - 1) : log[j] = <<"moments", n>>

\* C33: in a run of build followed by walk, an entry of children[] of a
\* node is read only before _update_moments writes the node's data form,
\* and first_child, next_sibling, mass and com of a node are read only
\* after it; _update_remote_moments and the serial, export and import walks
\* read no entry of children[], and the insertion reads no first_child or
\* next_sibling.
C33_UnionDiscipline ==
    \A r \in Ranks : \A k \in 1..Len(wlog[r]) :
        LET log == wlog[r]
            n == log[k][2]
        IN  /\ ReadsChildren(log[k]) =>
                  /\ ~MomentsWritten(log, n, k)
                  /\ RoutineAt(log, k) \in {"top_tree", "insert", "update_moments"}
            /\ ReadsData(log[k]) =>
                  /\ MomentsWritten(log, n, k)
                  /\ RoutineAt(log, k) \in
                        {"update_moments", "update_remote_moments", "particle",
                         "import"}

\* TRUE iff rank r has recorded event e in one of the routines
Recorded(r, e, routines) ==
    \E k \in 1..Len(wlog[r]) : wlog[r][k] = e /\ RoutineAt(wlog[r], k) \in routines

\* a two-rank run in which the imported particles have been walked: on one
\* rank ROOT had children[] read by _create_top_tree, its data form written,
\* then read by _update_remote_moments, by the export walk and by the import
\* walk; on one rank a node had children[] read by the insertion, its data
\* form written, then read by the export walk
C33_Witness ==
    /\ parallel = 1
    /\ \A r \in Ranks : ctl[r] = "return"
    /\ \E r \in Ranks :
           /\ Recorded(r, <<"children", ROOT>>, {"top_tree"})
           /\ Recorded(r, <<"moments", ROOT>>, {"update_moments"})
           /\ Recorded(r, <<"data", ROOT>>, {"update_remote_moments"})
           /\ Recorded(r, <<"visit", ROOT>>, {"particle"})
           /\ Recorded(r, <<"visit", ROOT>>, {"import"})
    /\ \E r \in Ranks : \E n \in Used(nodes[r]) :
           /\ Recorded(r, <<"children", n>>, {"insert"})
           /\ Recorded(r, <<"moments", n>>, {"update_moments"})
           /\ Recorded(r, <<"visit", n>>, {"particle"})

\* ------------------------------------------------ the cut of a serial walk
\* the positions of the events of the walk of particle p in the log of rank r
WalkOf(r, p) ==
    {k \in 1..Len(wlog[r]) : wlog[r][k][1] # "particle" /\ ParticleAt(wlog[r], k) = p}

\* the particles whose walk rank r has made
Walked(r) == {wlog[r][k][2] : k \in {j \in 1..Len(wlog[r]) : wlog[r][j][1] = "particle"}}

\* the positions at which the walk of p calls interact on leaf or on a node
\* above it
InteractsAbove(r, p, leaf) ==
    {k \in WalkOf(r, p) :
        wlog[r][k][1] = "interact" /\ Below(nodes[r], wlog[r][k][2], leaf)}

\* TRUE iff the last step of the walk of p leaves a node for ROOT_SIBLING
EndsAtRootSibling(r, p) ==
    LET last == CHOOSE k \in WalkOf(r, p) : \A j \in WalkOf(r, p) : j <= k
        node == At(nodes[r], wlog[r][last][2])
    IN  /\ WalkOf(r, p) # {}
        /\ IF wlog[r][last][1] = "interact"
           THEN node.next_sibling = ROOT_SIBLING
           ELSE node.first_child = ROOT_SIBLING

\* C34: in the serial walk, for every particle processed, the inner loop
\* ends at ROOT_SIBLING and the nodes passed to interact form a cut of the
\* tree: every LEAF has exactly one ancestor-or-self among them.
C34_InteractedCut ==
    \A r \in Ranks : (parallel = 0 /\ ctl[r] \in {"walk", "walked"}) =>
        \A p \in Walked(r) :
            /\ EndsAtRootSibling(r, p)
            /\ \A leaf \in Used(nodes[r]) : IsLeaf(At(nodes[r], leaf)) =>
                   Cardinality(InteractsAbove(r, p, leaf)) = 1

\* the walk of a particle has opened a non-leaf and called interact on a
\* non-leaf that it did not open
C34_Witness ==
    /\ parallel = 0
    /\ ctl[0] = "walked"
    /\ \E p \in Walked(0) : \E k1, k2 \in WalkOf(0, p) :
           /\ ~IsLeaf(At(nodes[0], wlog[0][k1][2]))
           /\ ~IsLeaf(At(nodes[0], wlog[0][k2][2]))
           /\ wlog[0][k1][1] = "interact"
           /\ wlog[0][k2][1] = "visit"
           /\ (k2 + 1) \in WalkOf(0, p) /\ wlog[0][k2 + 1][1] = "visit"

====
